---- MODULE Spec2Model ----
(***************************************************************************)
(* Model of the spectrum-visualizer signal pipeline:                       *)
(*   - frequency <-> FFT bin mapping            (src/src/audio.ts)         *)
(*   - AudioAnalyzer band aggregation/smoothing (src/src/App.tsx)          *)
(*   - mood estimation and mood-driven palette  (src/src/mood.ts)          *)
(*                                                                         *)
(* JavaScript numbers are modelled as exact rationals <<n, d>> in lowest   *)
(* terms with d > 0; <<0, 0>> stands for a non-finite result (NaN, or a    *)
(* division by zero).  Floating-point rounding error is not modelled.      *)
(***************************************************************************)
EXTENDS Integers, Sequences, FiniteSets, TLC

VARIABLES
    sampleRate,          \* audioContext.sampleRate
    fftSize,             \* analyser.fftSize
    minDecibels,         \* AudioAnalyzer.minDecibels
    maxDecibels,         \* AudioAnalyzer.maxDecibels
    bandSmoothingAlpha,  \* AudioAnalyzer.bandSmoothingAlpha
    bandsInternal,       \* AudioAnalyzer.bandsInternal
    fftMagnitudes,       \* AudioAnalyzer.fftMagnitudes (dB per bin)
    frames,              \* per getFrame() call, per band: the locals avgDb, normalized, prev, smoothed
    binCall,             \* the last call of frequencyToBinIndex / binIndexToFrequency
    moodRef,             \* VjVisuals moodRef.current
    bandMetaRef,         \* VjVisuals bandMetaRef.current
    moodCalls,           \* per updateMoodFromBands() call: prev, bands, meta, result
    paletteCalls,        \* per paletteFromMood() call: mood, palette
    canvas,              \* the <canvas> a SpectrogramRenderer draws on: width, height, has2d
    onFrame,             \* SpectrogramRenderer.onFrame: none, or what the callback does
    rendererStatus,      \* "none", "constructed", or "threw" (the constructor raised)
    animationFrameId,    \* SpectrogramRenderer.animationFrameId (<<>> is null)
    isPaused,            \* SpectrogramRenderer.isPaused
    rafPending,          \* ids of the animation-frame callbacks requested and not yet run or cancelled
    rafNext,             \* the id the next requestAnimationFrame() returns
    lastCall,            \* the latest of start() / stop() called on the renderer
    drawn,               \* what has been drawn on the canvas: clears, columns, scrolls, axes
    ticks,               \* per run of the loop callback: what drawFrame() found and did
    vjCanvas,            \* the VJ page's canvas: width, height
    particlesRef,        \* VjVisuals particlesRef.current: the array (by the number of arrays created) and its items
    visualModeRef,       \* VjVisuals visualModeRef.current
    music,               \* the band energies getFrame() delivers to the VJ page
    lastTick,            \* the latest pass of the VJ loop: the pool before, who expired, who was respawned
    vjTickCount,         \* passes of the VJ loop so far
    userEvents,          \* mode changes and fullscreen changes so far
    animationRef,        \* VjVisuals animationRef.current (<<>> is null)
    paletteNameRef,      \* VjVisuals paletteNameRef.current (<<>> on the page without named palettes)
    rendered,            \* the latest renderFrame() call: its pass, band energies and palette
    currentMode,         \* AudioAnalyzer.currentMode
    fileSource,          \* AudioAnalyzer.fileSource (<<>> is null)
    fileBuffer,          \* AudioAnalyzer.fileBuffer, as <<duration>> (<<>> is null)
    filePauseOffset,     \* AudioAnalyzer.filePauseOffset
    fileStartTime,       \* AudioAnalyzer.fileStartTime
    micStream,           \* AudioAnalyzer.micStream (<<>> is null)
    micSource,           \* AudioAnalyzer.micSource (<<>> is null)
    currentTime,         \* audioContext.currentTime
    played,              \* seconds of the file played since it was loaded or rewound
    endedEvents,         \* the sources whose 'ended' event is queued
    pending,             \* the source selections awaiting their file or stream
    nextSource,          \* the identity of the next buffer source node
    lastOp,              \* the transport method called last, with the fields before it
    labMode,             \* SpectrumLab state mode
    hasFile,             \* SpectrumLab state hasFile
    isFilePlaying        \* SpectrumLab state isFilePlaying

vars == <<sampleRate, fftSize, minDecibels, maxDecibels, bandSmoothingAlpha,
          bandsInternal, fftMagnitudes, frames, binCall, moodRef, bandMetaRef,
          moodCalls, paletteCalls,
          canvas, onFrame, rendererStatus, animationFrameId, isPaused, rafPending,
          rafNext, lastCall, drawn, ticks,
          vjCanvas, particlesRef, visualModeRef, music, lastTick, vjTickCount, userEvents,
          animationRef, paletteNameRef, rendered,
          currentMode, fileSource, fileBuffer, filePauseOffset, fileStartTime, micStream,
          micSource, currentTime, played, endedEvents, pending, nextSource, lastOp,
          labMode, hasFile, isFilePlaying>>

analyzerVars == <<sampleRate, fftSize, minDecibels, maxDecibels, bandSmoothingAlpha,
                  bandsInternal, fftMagnitudes, frames>>

moodVars == <<moodRef, bandMetaRef, moodCalls>>

rendererVars == <<canvas, onFrame, rendererStatus, animationFrameId, isPaused,
                  rafPending, rafNext, lastCall, drawn, ticks>>

particleVars == <<vjCanvas, particlesRef, visualModeRef, music, lastTick, vjTickCount,
                  userEvents>>

loopVars == <<animationRef, paletteNameRef, rendered>>

transportVars == <<currentMode, fileSource, fileBuffer, filePauseOffset, fileStartTime,
                   micStream, micSource, currentTime, played, endedEvents, pending,
                   nextSource, lastOp>>

labVars == <<labMode, hasFile, isFilePlaying>>

\* the state of the pages' own components
pageVars == <<rendererVars, particleVars, loopVars, transportVars, labVars>>

-----------------------------------------------------------------------------
(* Bounds of the model. *)

MaxFrames == 3

MaxMoodCalls == 3

MaxPaletteCalls == 2

\* requestAnimationFrame() calls of one run
MaxRequests == 5

\* particles of the pool (220 on the page)
PoolSize == 7

\* passes of the VJ loop of one run
MaxVisualTicks == 18

\* mode changes and fullscreen changes of one run
MaxUserEvents == 1

\* seconds of the audio context's clock a run covers
MaxClock == 5

\* buffer source nodes a run creates
MaxSources == 3

\* the tallest canvas and the longest spectrum a column is drawn for
MaxHeight == 12

MaxLength == 10

\* the colour map is called on the multiples of 1 / ColourSteps
ColourSteps == 40

-----------------------------------------------------------------------------
(* JavaScript number arithmetic on exact rationals. *)

NaN == <<0, 0>>

IsNaN(a) == a[2] = 0

Abs(n) == IF n < 0 THEN -n ELSE n

RECURSIVE GCD(_, _)
GCD(a, b) == IF b = 0 THEN a ELSE GCD(b, a % b)

LCM(a, b) == (a \div GCD(a, b)) * b

Frac(n, d) ==
    IF d = 0 THEN NaN
    ELSE LET g == GCD(Abs(n), Abs(d))
             s == IF d < 0 THEN -1 ELSE 1
         IN  <<(s * n) \div g, (s * d) \div g>>

Num(i) == <<i, 1>>

Zero == Num(0)

One == Num(1)

Half == <<1, 2>>

Add(a, b) ==
    IF IsNaN(a) \/ IsNaN(b) THEN NaN
    ELSE LET l == LCM(a[2], b[2])
         IN  Frac(a[1] * (l \div a[2]) + b[1] * (l \div b[2]), l)

Neg(a) == IF IsNaN(a) THEN NaN ELSE <<-a[1], a[2]>>

RatAbs(a) == IF a[1] < 0 THEN Neg(a) ELSE a

Sub(a, b) == Add(a, Neg(b))

Mul(a, b) ==
    IF IsNaN(a) \/ IsNaN(b) THEN NaN
    ELSE LET g1 == GCD(Abs(a[1]), b[2])
             g2 == GCD(Abs(b[1]), a[2])
         IN  Frac((a[1] \div g1) * (b[1] \div g2), (a[2] \div g2) * (b[2] \div g1))

Div(a, b) ==
    IF IsNaN(a) \/ IsNaN(b) \/ b[1] = 0 THEN NaN
    ELSE Mul(a, IF b[1] > 0 THEN <<b[2], b[1]>> ELSE <<-b[2], -b[1]>>)

\* a < b; false when either side is not a finite number, as in JavaScript
Lt(a, b) ==
    /\ ~IsNaN(a)
    /\ ~IsNaN(b)
    /\ LET l == LCM(a[2], b[2])
       IN  a[1] * (l \div a[2]) < b[1] * (l \div b[2])

\* a <= b; false when either side is not a finite number
Le(a, b) ==
    /\ ~IsNaN(a)
    /\ ~IsNaN(b)
    /\ LET l == LCM(a[2], b[2])
       IN  a[1] * (l \div a[2]) <= b[1] * (l \div b[2])

MathMin(a, b) == IF IsNaN(a) \/ IsNaN(b) THEN NaN ELSE IF Lt(b, a) THEN b ELSE a

MathMax(a, b) == IF IsNaN(a) \/ IsNaN(b) THEN NaN ELSE IF Lt(a, b) THEN b ELSE a

\* Math.round of a finite number: the nearest integer, halves rounded up
MathRound(a) == (2 * a[1] + a[2]) \div (2 * a[2])

\* the integer part of a finite number, rounded toward zero
Trunc(a) == IF a[1] >= 0 THEN a[1] \div a[2] ELSE -((-a[1]) \div a[2])

\* the JavaScript remainder a % m for an integer m: it takes the sign of a
JsMod(a, m) == IF IsNaN(a) \/ m = 0 THEN NaN ELSE Sub(a, Num(m * Trunc(Div(a, Num(m)))))

In01(a) == Le(Zero, a) /\ Le(a, One)

MinInt(a, b) == IF a < b THEN a ELSE b

MaxInt(a, b) == IF a > b THEN a ELSE b

-----------------------------------------------------------------------------
(* src/src/audio.ts: frequency <-> bin mapping.  fftSize is even (the       *)
(* AnalyserNode accepts powers of two only), so fftSize / 2 is an integer.  *)

binIndexToFrequency(binIndex, sr, fft) ==
    LET nyquist == Frac(sr, 2)
        maxBin  == fft \div 2
        clamped == MinInt(MaxInt(binIndex, 0), maxBin)
    IN  Mul(Frac(clamped, maxBin), nyquist)

\* a variant that truncates instead of rounding to the closest bin
frequencyToBinIndexFloor(frequency, sr, fft) ==
    LET nyquist == Frac(sr, 2)
    IN  IF Le(frequency, Zero) THEN 0
        ELSE IF Le(nyquist, frequency) THEN fft \div 2 - 1
        ELSE LET ratio == Div(frequency, nyquist)
                 x     == Mul(ratio, Num(fft \div 2 - 1))
             IN  x[1] \div x[2]

frequencyToBinIndex(frequency, sr, fft) ==
    LET nyquist == Frac(sr, 2)
    IN  IF Le(frequency, Zero) THEN 0
        ELSE IF Le(nyquist, frequency) THEN fft \div 2 - 1
        ELSE LET ratio == Div(frequency, nyquist)
             IN  MathRound(Mul(ratio, Num(fft \div 2 - 1)))

-----------------------------------------------------------------------------
(* src/src/App.tsx: AudioAnalyzer.                                          *)

\* option values the analyzer is constructed with
SampleRates == {8000, 44100}

FftSizes == {32, 64}

\* <<minDecibels, maxDecibels>>: the defaults, and a zero-width range
DecibelRanges == {<<-100, -30>>, <<-60, -60>>}

\* bandSmoothingAlpha, in (0, 1]: 0.25, the default 0.65, and 1
Alphas == {<<1, 4>>, <<13, 20>>, <<1, 1>>}

\* minHz / maxHz of a custom band: negative, in range, above Nyquist
CustomHz == {Num(-100), Num(300), Num(30000)}

\* dB values of a spectrum: below minDecibels, inside the range, maxDecibels, above it
DbValues == {-130, -65, -30, 0}

getDefaultFrequencyBands(sr) ==
    LET nyquist == Frac(sr, 2)
        clampMax(hz) == MathMin(Num(hz), nyquist)
    IN  << [id |-> "sub",        minHz |-> Num(20),   maxHz |-> clampMax(60)],
           [id |-> "bass",       minHz |-> Num(60),   maxHz |-> clampMax(250)],
           [id |-> "low-mid",    minHz |-> Num(250),  maxHz |-> clampMax(500)],
           [id |-> "mid",        minHz |-> Num(500),  maxHz |-> clampMax(2000)],
           [id |-> "presence",   minHz |-> Num(2000), maxHz |-> clampMax(6000)],
           [id |-> "brilliance", minHz |-> Num(6000), maxHz |-> clampMax(16000)] >>

\* options.bands: a custom band (any order of its limits) followed by a regular one
CustomBands ==
    { << [id |-> "custom", minHz |-> lo, maxHz |-> hi],
         [id |-> "bass",   minHz |-> Num(60), maxHz |-> Num(250)] >> :
      lo \in CustomHz, hi \in CustomHz }

\* the spectra getFloatFrequencyData() delivers: flat, or loud in the two lowest bins only
Spectra(len) ==
    { [k \in 1..len |-> v] : v \in DbValues }
    \cup { [k \in 1..len |-> IF k <= 2 THEN -30 ELSE -100] }

\* a variant that takes endBin as an exclusive limit and leaves it unclamped
computeBandStatesExclusiveEnd(bands) ==
    [i \in 1..Len(bands) |->
        LET config   == bands[i]
            startBin == frequencyToBinIndex(config.minHz, sampleRate, fftSize)
            endBin   == frequencyToBinIndex(config.maxHz, sampleRate, fftSize)
        IN  [config        |-> config,
             startBin      |-> MaxInt(0, MinInt(startBin, Len(fftMagnitudes) - 1)),
             endBin        |-> endBin + 1,
             smoothedValue |-> Zero]]

computeBandStates(bands) ==
    [i \in 1..Len(bands) |->
        LET config   == bands[i]
            startBin == frequencyToBinIndex(config.minHz, sampleRate, fftSize)
            endBin   == frequencyToBinIndex(config.maxHz, sampleRate, fftSize)
        IN  [config        |-> config,
             startBin      |-> MaxInt(0, MinInt(startBin, Len(fftMagnitudes) - 1)),
             endBin        |-> MaxInt(0, MinInt(endBin, Len(fftMagnitudes) - 1)),
             smoothedValue |-> Zero]]

\* a variant without the guard against a zero-width decibel range
normalizeDecibelsNoGuard(dbValue) ==
    LET clamped == MathMin(MathMax(dbValue, Num(minDecibels)), Num(maxDecibels))
        range   == maxDecibels - minDecibels
    IN  Div(Sub(clamped, Num(minDecibels)), Num(range))

normalizeDecibels(dbValue) ==
    LET clamped == MathMin(MathMax(dbValue, Num(minDecibels)), Num(maxDecibels))
        range   == IF maxDecibels - minDecibels # 0 THEN maxDecibels - minDecibels ELSE 1
    IN  Div(Sub(clamped, Num(minDecibels)), Num(range))

\* magnitudes[startBin] + ... + magnitudes[endBin], for 0-based indices inside the array
RECURSIVE SumRange(_, _, _)
SumRange(magnitudes, k, endBin) ==
    IF k > endBin THEN 0 ELSE magnitudes[k + 1] + SumRange(magnitudes, k + 1, endBin)

\* the loop "for (k = startBin; k <= endBin; k++) sumDb += magnitudes[k]";
\* a read outside the array yields undefined and the sum is not a number
SumDb(magnitudes, startBin, endBin) ==
    IF \E k \in startBin..endBin : k \notin 0..(Len(magnitudes) - 1) THEN NaN
    ELSE Num(SumRange(magnitudes, startBin, endBin))

\* a variant that divides by the bin count even when the bin range is empty
BandFrameNoEmptyGuard(band, magnitudes) ==
    LET binCount   == band.endBin - band.startBin + 1
        avgDb      == Div(SumDb(magnitudes, band.startBin, band.endBin), Num(binCount))
        normalized == normalizeDecibels(avgDb)
        alpha      == bandSmoothingAlpha
        prev       == band.smoothedValue
        smoothed   == Add(Mul(prev, Sub(One, alpha)), Mul(normalized, alpha))
    IN  [binCount |-> binCount, avgDb |-> avgDb, normalized |-> normalized,
         prev |-> prev, smoothed |-> smoothed]

\* a variant that adds the new value without decaying the previous one
BandFrameNoDecay(band, magnitudes) ==
    LET binCount   == band.endBin - band.startBin + 1
        avgDb      == IF binCount <= 0 THEN Num(minDecibels)
                      ELSE Div(SumDb(magnitudes, band.startBin, band.endBin), Num(binCount))
        normalized == normalizeDecibels(avgDb)
        alpha      == bandSmoothingAlpha
        prev       == band.smoothedValue
        smoothed   == Add(prev, Mul(normalized, alpha))
    IN  [binCount |-> binCount, avgDb |-> avgDb, normalized |-> normalized,
         prev |-> prev, smoothed |-> smoothed]

\* a variant with the two smoothing weights exchanged
BandFrameSwappedWeights(band, magnitudes) ==
    LET binCount   == band.endBin - band.startBin + 1
        avgDb      == IF binCount <= 0 THEN Num(minDecibels)
                      ELSE Div(SumDb(magnitudes, band.startBin, band.endBin), Num(binCount))
        normalized == normalizeDecibels(avgDb)
        alpha      == bandSmoothingAlpha
        prev       == band.smoothedValue
        smoothed   == Add(Mul(prev, alpha), Mul(normalized, Sub(One, alpha)))
    IN  [binCount |-> binCount, avgDb |-> avgDb, normalized |-> normalized,
         prev |-> prev, smoothed |-> smoothed]

\* one iteration of the band loop of getFrame(): its locals
BandFrame(band, magnitudes) ==
    LET binCount   == band.endBin - band.startBin + 1
        avgDb      == IF binCount <= 0 THEN Num(minDecibels)
                      ELSE Div(SumDb(magnitudes, band.startBin, band.endBin), Num(binCount))
        normalized == normalizeDecibels(avgDb)
        alpha      == bandSmoothingAlpha
        prev       == band.smoothedValue
        smoothed   == Add(Mul(prev, Sub(One, alpha)), Mul(normalized, alpha))
    IN  [binCount |-> binCount, avgDb |-> avgDb, normalized |-> normalized,
         prev |-> prev, smoothed |-> smoothed]

\* getFrame() when the analyser node delivers spectrum
getFrame(spectrum) ==
    /\ fftMagnitudes' = spectrum
    /\ frames' = Append(frames,
         [i \in 1..Len(bandsInternal) |-> BandFrame(bandsInternal[i], spectrum)])
    /\ bandsInternal' =
         [i \in 1..Len(bandsInternal) |->
            [bandsInternal[i] EXCEPT !.smoothedValue = frames'[Len(frames')][i].smoothed]]
    /\ UNCHANGED <<sampleRate, fftSize, minDecibels, maxDecibels, bandSmoothingAlpha>>

\* a call of getFrame() by the page
GetFrame ==
    /\ Len(frames) < MaxFrames
    /\ \E spectrum \in Spectra(Len(fftMagnitudes)) : getFrame(spectrum)
    /\ UNCHANGED <<binCall, moodRef, bandMetaRef, moodCalls, paletteCalls>>
    /\ UNCHANGED pageVars

\* new AudioAnalyzer(options) on a context of sample rate sr
Construct(sr, fft, range, alpha, bands) ==
    /\ sampleRate = sr
    /\ fftSize = fft
    /\ minDecibels = range[1]
    /\ maxDecibels = range[2]
    /\ fftMagnitudes = [k \in 1..(fft \div 2) |-> 0]
    /\ bandSmoothingAlpha = alpha
    /\ bandsInternal = computeBandStates(bands)
    /\ frames = <<>>

NoBinCall == [op |-> "none", sr |-> 0, fft |-> 0, arg |-> Zero, result |-> Zero, origin |-> -1]

\* the other components, idle
BinsIdle == binCall = NoBinCall

MoodIdle ==
    /\ moodRef = <<>>
    /\ bandMetaRef = <<>>
    /\ moodCalls = <<>>

PaletteIdle == paletteCalls = <<>>

NoCanvas == [width |-> 0, height |-> 0, has2d |-> FALSE]

NothingDrawn == [clears |-> 0, columns |-> 0, scrolls |-> 0, axes |-> 0]

\* no SpectrogramRenderer
RendererIdle ==
    /\ canvas = NoCanvas
    /\ onFrame = <<>>
    /\ rendererStatus = "none"
    /\ animationFrameId = <<>>
    /\ isPaused = FALSE
    /\ rafPending = {}
    /\ rafNext = 1
    /\ lastCall = "none"
    /\ drawn = NothingDrawn
    /\ ticks = <<>>

NoParticles == [allocations |-> 0, items |-> <<>>]

NoTick ==
    [mode |-> "none", before |-> NoParticles, expired |-> {}, respawned |-> {}, drawn |-> {}]

\* no VJ page
ParticlesIdle ==
    /\ vjCanvas = [width |-> 0, height |-> 0]
    /\ particlesRef = NoParticles
    /\ visualModeRef = "none"
    /\ music = <<>>
    /\ lastTick = NoTick
    /\ vjTickCount = 0
    /\ userEvents = 0

NoRender == [tick |-> 0, bands |-> <<>>, palette |-> <<>>]

\* no animation loop of the VJ page
LoopIdle ==
    /\ animationRef = <<>>
    /\ paletteNameRef = <<>>
    /\ rendered = NoRender

NoOp == [op |-> "none", before |-> <<>>]

\* the transport of a new AudioAnalyzer
TransportIdle ==
    /\ currentMode = "idle"
    /\ fileSource = <<>>
    /\ fileBuffer = <<>>
    /\ filePauseOffset = 0
    /\ fileStartTime = 0
    /\ micStream = <<>>
    /\ micSource = <<>>
    /\ currentTime = 0
    /\ played = 0
    /\ endedEvents = {}
    /\ pending = {}
    /\ nextSource = 1
    /\ lastOp = NoOp

\* the source controls of a new SpectrumLab page
LabIdle ==
    /\ labMode = "idle"
    /\ hasFile = FALSE
    /\ isFilePlaying = FALSE

PagesIdle == RendererIdle /\ ParticlesIdle /\ LoopIdle /\ TransportIdle /\ LabIdle

Init ==
    /\ \E sr \in SampleRates, fft \in FftSizes, range \in DecibelRanges, alpha \in Alphas :
         \E bands \in {getDefaultFrequencyBands(sr)} \cup CustomBands :
            Construct(sr, fft, range, alpha, bands)
    /\ BinsIdle
    /\ MoodIdle
    /\ PaletteIdle
    /\ PagesIdle

Next == GetFrame

Spec == Init /\ [][Next]_vars

-----------------------------------------------------------------------------
(* The bin mapping functions called on their own.                           *)

BinSampleRates == {8000, 44100, 48000}

\* 2048 is the default transform size
BinFftSizes == {32, 64, 2048}

HzSamples == {Num(-20), Num(20), Num(60), Num(250), Num(500), Num(2000),
              Num(6000), Num(16000), Num(30000)}

\* every half bin step from below 0 Hz to above Nyquist: the rounding ties are on it
FrequencyGrid(sr, fft) ==
    IF fft > 64 THEN {}
    ELSE { Frac(k * sr, 4 * (fft \div 2 - 1)) : k \in (-1)..(2 * (fft \div 2 - 1) + 1) }

Frequencies(sr, fft) == HzSamples \cup FrequencyGrid(sr, fft)

CallBinIndexToFrequency ==
    /\ binCall.op = "none"
    /\ \E sr \in BinSampleRates, fft \in BinFftSizes :
         \E b \in (-1)..(fft \div 2 + 1) :
            binCall' = [op |-> "binIndexToFrequency", sr |-> sr, fft |-> fft,
                        arg |-> Num(b), result |-> binIndexToFrequency(b, sr, fft),
                        origin |-> -1]
    /\ UNCHANGED <<analyzerVars, moodVars, paletteCalls>>
    /\ UNCHANGED pageVars

CallFrequencyToBinIndex ==
    /\ binCall.op = "none"
    /\ \E sr \in BinSampleRates, fft \in BinFftSizes :
         \E f \in Frequencies(sr, fft) :
            binCall' = [op |-> "frequencyToBinIndex", sr |-> sr, fft |-> fft,
                        arg |-> f, result |-> Num(frequencyToBinIndex(f, sr, fft)),
                        origin |-> -1]
    /\ UNCHANGED <<analyzerVars, moodVars, paletteCalls>>
    /\ UNCHANGED pageVars

\* frequencyToBinIndex applied to the frequency binIndexToFrequency just returned
CallRoundTrip ==
    /\ binCall.op = "binIndexToFrequency"
    /\ binCall' = [op |-> "frequencyToBinIndex", sr |-> binCall.sr, fft |-> binCall.fft,
                   arg |-> binCall.result,
                   result |-> Num(frequencyToBinIndex(binCall.result, binCall.sr, binCall.fft)),
                   origin |-> binCall.arg[1]]
    /\ UNCHANGED <<analyzerVars, moodVars, paletteCalls>>
    /\ UNCHANGED pageVars

\* the analyzer of the VJ page: new AudioAnalyzer({fftSize: 2048, bandSmoothingAlpha: 0.6})
VjAnalyzer == Construct(44100, 2048, <<-100, -30>>, <<3, 5>>, getDefaultFrequencyBands(44100))

InitBins ==
    /\ VjAnalyzer
    /\ BinsIdle
    /\ MoodIdle
    /\ PaletteIdle
    /\ PagesIdle

NextBins == CallBinIndexToFrequency \/ CallFrequencyToBinIndex \/ CallRoundTrip

SpecBins == InitBins /\ [][NextBins]_vars

-----------------------------------------------------------------------------
(* src/src/mood.ts: mood estimation and the mood-driven palette.            *)
(* An optional value (MoodState | undefined) is <<>> or <<value>>.          *)

Undefined == <<>>

DEFAULT_MOOD == [energy |-> <<1, 5>>, brightness |-> <<2, 5>>, dynamics |-> <<3, 10>>]

\* a variant that forgets the lower limit
clamp01UpperOnly(value) == MathMin(One, value)

clamp01(value) == MathMin(One, MathMax(Zero, value))

lerp(a, b, t) == Add(Num(a), Mul(Num(b - a), t))

\* seq[1] + ... + seq[n]
RECURSIVE SumRatTo(_, _)
SumRatTo(seq, n) == IF n = 0 THEN Zero ELSE Add(SumRatTo(seq, n - 1), seq[n])

\* seq.reduce((a, b) => a + b, 0)
SumRat(seq) == SumRatTo(seq, Len(seq))

\* meta[i]?.centerHz ?? 0, for a 1-based index i
CenterHzAt(meta, i) == IF i <= Len(meta) THEN meta[i].centerHz ELSE Zero

\* the branch of the bucket loop a centre frequency takes
BucketOf(freq) ==
    IF Lt(freq, Num(500)) THEN "low" ELSE IF Lt(freq, Num(2000)) THEN "mid" ELSE "high"

\* the energy the bucket loop accumulates in one bucket
BucketEnergy(bands, meta, bucket) ==
    SumRat([i \in 1..Len(bands) |->
              IF BucketOf(CenterHzAt(meta, i)) = bucket THEN bands[i] ELSE Zero])

\* a variant whose variance divides by the number of bands
MoodRawPopulationVariance(bands, meta) ==
    LET energyRaw     == Div(SumRat(bands), Num(Len(bands)))
        lowSum        == BucketEnergy(bands, meta, "low")
        midSum        == BucketEnergy(bands, meta, "mid")
        highSum       == BucketEnergy(bands, meta, "high")
        totalEnergy   == Add(Add(lowSum, midSum), highSum)
        normalize     == Lt(<<1, 1000>>, totalEnergy)
        lowEnergy     == IF normalize THEN Div(lowSum, totalEnergy) ELSE lowSum
        highEnergy    == IF normalize THEN Div(highSum, totalEnergy) ELSE highSum
        brightnessRaw == clamp01(Sub(Mul(highEnergy, <<5, 2>>), Mul(lowEnergy, <<1, 2>>)))
        mean          == energyRaw
        variance      == Div(SumRat([i \in 1..Len(bands) |->
                                       Mul(Sub(bands[i], mean), Sub(bands[i], mean))]),
                             Num(Len(bands)))
        dynamicsRaw   == clamp01(Mul(variance, Num(4)))
    IN  [energy |-> energyRaw, brightness |-> brightnessRaw, dynamics |-> dynamicsRaw]

\* energyRaw, brightnessRaw and dynamicsRaw of updateMoodFromBands, for non-empty bands
MoodRaw(bands, meta) ==
    LET energyRaw     == Div(SumRat(bands), Num(Len(bands)))
        lowSum        == BucketEnergy(bands, meta, "low")
        midSum        == BucketEnergy(bands, meta, "mid")
        highSum       == BucketEnergy(bands, meta, "high")
        totalEnergy   == Add(Add(lowSum, midSum), highSum)
        normalize     == Lt(<<1, 1000>>, totalEnergy)
        lowEnergy     == IF normalize THEN Div(lowSum, totalEnergy) ELSE lowSum
        highEnergy    == IF normalize THEN Div(highSum, totalEnergy) ELSE highSum
        brightnessRaw == clamp01(Sub(Mul(highEnergy, <<5, 2>>), Mul(lowEnergy, <<1, 2>>)))
        mean          == energyRaw
        variance      == Div(SumRat([i \in 1..Len(bands) |->
                                       Mul(Sub(bands[i], mean), Sub(bands[i], mean))]),
                             Num(MaxInt(1, Len(bands) - 1)))
        dynamicsRaw   == clamp01(Mul(variance, Num(4)))
    IN  [energy |-> energyRaw, brightness |-> brightnessRaw, dynamics |-> dynamicsRaw]

\* the smoothing step "state * (1 - alpha) + raw * alpha" with alpha = 0.15
MoodSmooth(state, raw) ==
    LET alpha == <<3, 20>>
    IN  [energy     |-> Add(Mul(state.energy, Sub(One, alpha)), Mul(raw.energy, alpha)),
         brightness |-> Add(Mul(state.brightness, Sub(One, alpha)), Mul(raw.brightness, alpha)),
         dynamics   |-> Add(Mul(state.dynamics, Sub(One, alpha)), Mul(raw.dynamics, alpha))]

\* a variant whose early return tests the band energies only
updateMoodFromBandsBandsGuardOnly(prev, bands, meta) ==
    IF Len(bands) = 0
    THEN (IF prev = Undefined THEN DEFAULT_MOOD ELSE prev[1])
    ELSE MoodSmooth(IF prev = Undefined THEN DEFAULT_MOOD ELSE prev[1], MoodRaw(bands, meta))

updateMoodFromBands(prev, bands, meta) ==
    IF Len(bands) = 0 \/ Len(meta) = 0
    THEN (IF prev = Undefined THEN DEFAULT_MOOD ELSE prev[1])
    ELSE MoodSmooth(IF prev = Undefined THEN DEFAULT_MOOD ELSE prev[1], MoodRaw(bands, meta))

\* the string `hsl(${h}deg ${s}% ${l}%)`: distinct numbers print differently
Hsl(h, s, l) == [hue |-> h, sat |-> s, light |-> l]

\* a variant that takes the energy from the shared mood ref when there is one
paletteFromMoodSharedEnergy(mood) ==
    LET energy      == clamp01(IF moodRef = Undefined THEN mood.energy ELSE moodRef[1].energy)
        temperature == clamp01(mood.brightness)
        dynamics    == clamp01(mood.dynamics)
        baseHue     == lerp(0, 280, temperature)
        hueShift    == lerp(60, 150, dynamics)
        accentHue   == JsMod(Add(Add(baseHue, hueShift), lerp(-30, 30, energy)), 360)
    IN  [background |-> Hsl(JsMod(Add(baseHue, Num(180)), 360),
                            lerp(25, 45, energy), lerp(6, 12, energy)),
         base       |-> Hsl(baseHue, lerp(65, 85, energy), lerp(42, 50, temperature)),
         accent     |-> Hsl(accentHue, lerp(75, 98, energy), lerp(50, 68, energy)),
         ring       |-> Hsl(JsMod(Add(baseHue, lerp(120, 240, dynamics)), 360),
                            lerp(80, 95, energy), lerp(55, 70, energy)),
         particle   |-> Hsl(JsMod(Add(accentHue, lerp(-45, 45, dynamics)), 360),
                            lerp(70, 90, energy), lerp(55, 72, energy)),
         highlight  |-> Hsl(JsMod(Add(accentHue, lerp(0, 30, dynamics)), 360),
                            Num(100), lerp(72, 90, energy))]

paletteFromMood(mood) ==
    LET energy      == clamp01(mood.energy)
        temperature == clamp01(mood.brightness)
        dynamics    == clamp01(mood.dynamics)
        baseHue     == lerp(0, 280, temperature)
        hueShift    == lerp(60, 150, dynamics)
        accentHue   == JsMod(Add(Add(baseHue, hueShift), lerp(-30, 30, energy)), 360)
    IN  [background |-> Hsl(JsMod(Add(baseHue, Num(180)), 360),
                            lerp(25, 45, energy), lerp(6, 12, energy)),
         base       |-> Hsl(baseHue, lerp(65, 85, energy), lerp(42, 50, temperature)),
         accent     |-> Hsl(accentHue, lerp(75, 98, energy), lerp(50, 68, energy)),
         ring       |-> Hsl(JsMod(Add(baseHue, lerp(120, 240, dynamics)), 360),
                            lerp(80, 95, energy), lerp(55, 70, energy)),
         particle   |-> Hsl(JsMod(Add(accentHue, lerp(-45, 45, dynamics)), 360),
                            lerp(70, 90, energy), lerp(55, 72, energy)),
         highlight  |-> Hsl(JsMod(Add(accentHue, lerp(0, 30, dynamics)), 360),
                            Num(100), lerp(72, 90, energy))]

\* bandConfig.map((band) => ({centerHz: (band.minHz + band.maxHz) / 2}))
BandMetaOf(bandConfig) ==
    [i \in 1..Len(bandConfig) |->
        [centerHz |-> Div(Add(bandConfig[i].minHz, bandConfig[i].maxHz), Num(2))]]

\* analyzer.getBandsConfig()
getBandsConfig == [i \in 1..Len(bandsInternal) |-> bandsInternal[i].config]

SixBands(a, b, c, d, e, f) == <<a, b, c, d, e, f>>

\* band energies passed to updateMoodFromBands: none, all 0, all 1, treble only, sub
\* only, a mixed frame, and values outside [0, 1]
BandInputs ==
    { <<>>,
      SixBands(Zero, Zero, Zero, Zero, Zero, Zero),
      SixBands(One, One, One, One, One, One),
      SixBands(Zero, Zero, Zero, Zero, Zero, One),
      SixBands(One, Zero, Zero, Zero, Zero, Zero),
      SixBands(Half, Zero, Zero, One, Zero, Half),
      SixBands(Num(2), Num(2), Num(2), Num(2), Num(2), Num(2)),
      SixBands(Num(-1), Zero, Zero, Zero, Zero, Zero) }

\* the previous mood of the first call: none, or a corner of [0, 1]^3
InitialMoods ==
    { Undefined,
      <<[energy |-> Zero, brightness |-> Zero, dynamics |-> Zero]>>,
      <<[energy |-> One, brightness |-> One, dynamics |-> One]>> }

\* one pass of the loop's mood update on the given band energies
UpdateMood(inputs) ==
    /\ Len(moodCalls) < MaxMoodCalls
    /\ \E bands \in inputs :
         /\ moodRef' = <<updateMoodFromBands(moodRef, bands, bandMetaRef)>>
         /\ moodCalls' = Append(moodCalls,
              [prev |-> moodRef, bands |-> bands, result |-> moodRef'[1]])
    /\ UNCHANGED <<analyzerVars, binCall, bandMetaRef, paletteCalls>>
    /\ UNCHANGED pageVars

InitMood ==
    /\ VjAnalyzer
    /\ BinsIdle
    /\ PaletteIdle
    /\ PagesIdle
    /\ moodRef \in InitialMoods
    /\ bandMetaRef \in { BandMetaOf(getBandsConfig), <<>>, SubSeq(BandMetaOf(getBandsConfig), 1, 3) }
    /\ moodCalls = <<>>

NextMood == UpdateMood(BandInputs)

SpecMood == InitMood /\ [][NextMood]_vars

\* moods passed to paletteFromMood: the corners and the centre of [0, 1]^3
PaletteMoods ==
    { [energy |-> e, brightness |-> b, dynamics |-> d] : e \in {Zero, One}, b \in {Zero, One}, d \in {Zero, One} }
    \cup { [energy |-> Half, brightness |-> Half, dynamics |-> Half] }

\* the band energies of the mood updates between palette calls
PaletteBandInputs == { SixBands(Half, Zero, Zero, One, Zero, Half) }

\* paletteFromMood(mood) on the current mood or on a given one
CallPaletteFromMood ==
    /\ Len(paletteCalls) < MaxPaletteCalls
    /\ \E mood \in PaletteMoods \cup {moodRef[i] : i \in 1..Len(moodRef)} :
         paletteCalls' = Append(paletteCalls,
           [mood |-> mood, palette |-> paletteFromMood(mood), after |-> Len(moodCalls)])
    /\ UNCHANGED <<analyzerVars, binCall, moodVars>>
    /\ UNCHANGED pageVars

InitPalette ==
    /\ VjAnalyzer
    /\ BinsIdle
    /\ PaletteIdle
    /\ PagesIdle
    /\ moodRef = Undefined
    /\ bandMetaRef = BandMetaOf(getBandsConfig)
    /\ moodCalls = <<>>

NextPalette == UpdateMood(PaletteBandInputs) \/ CallPaletteFromMood

SpecPalette == InitPalette /\ [][NextPalette]_vars

-----------------------------------------------------------------------------
(* src/src/mood.ts: SpectrogramRenderer, and the browser's animation frames. *)

axisWidth == 56

\* the canvases a renderer is constructed on: 300x150, a plot area one pixel wide,
\* no height, and one that has no 2d context
Canvases ==
    { [width |-> 300, height |-> 150, has2d |-> TRUE],
      [width |-> 57,  height |-> 150, has2d |-> TRUE],
      [width |-> 300, height |-> 0,   has2d |-> TRUE],
      [width |-> 300, height |-> 150, has2d |-> FALSE] }

\* what the onFrame callback does with the renderer: nothing (it records the
\* frame, as the one of SpectrumLab), stop(), setPaused(true), or stop() and
\* then start()
OnFrameCallbacks == {"record", "stop", "pause", "restart"}

\* the spectra of the ticks: flat, or loud in the two lowest bins only
LabSpectra(len) ==
    { [k \in 1..len |-> -65], [k \in 1..len |-> IF k <= 2 THEN -30 ELSE -100] }

\* the mutable fields of the renderer and the browser's callback list, as one value
Renderer ==
    [animationFrameId |-> animationFrameId, isPaused |-> isPaused,
     rafPending |-> rafPending, rafNext |-> rafNext, lastCall |-> lastCall]

SetRenderer(r) ==
    /\ animationFrameId' = r.animationFrameId
    /\ isPaused' = r.isPaused
    /\ rafPending' = r.rafPending
    /\ rafNext' = r.rafNext
    /\ lastCall' = r.lastCall

\* window.requestAnimationFrame(loop), its result stored in animationFrameId
requestAnimationFrame(r) ==
    [r EXCEPT !.animationFrameId = <<r.rafNext>>,
              !.rafPending = @ \cup {r.rafNext},
              !.rafNext = @ + 1]

\* window.cancelAnimationFrame(id): no effect when id is not pending any more
cancelAnimationFrame(r, id) == [r EXCEPT !.rafPending = @ \ {id}]

setPaused(r, paused) == [r EXCEPT !.isPaused = paused]

start(r) ==
    IF r.animationFrameId # <<>> THEN [r EXCEPT !.lastCall = "start"]
    ELSE [requestAnimationFrame(r) EXCEPT !.lastCall = "start"]

stop(r) ==
    IF r.animationFrameId # <<>>
    THEN [cancelAnimationFrame(r, r.animationFrameId[1]) EXCEPT
             !.animationFrameId = <<>>, !.lastCall = "stop"]
    ELSE [r EXCEPT !.lastCall = "stop"]

\* a variant that never looks at the paused flag
drawFramePathPauseIgnored(cv, paused) ==
    IF cv.width - axisWidth <= 1 \/ cv.height <= 0 THEN "return"
    ELSE "column"

\* the path drawFrame() takes: return at once, redraw the axis only, or draw a column
drawFramePath(cv, paused) ==
    IF cv.width - axisWidth <= 1 \/ cv.height <= 0 THEN "return"
    ELSE IF paused THEN "axis"
    ELSE "column"

\* this.onFrame?.(frame)
CallOnFrame(r) ==
    IF onFrame = <<>> THEN r
    ELSE CASE onFrame[1] = "stop"  -> stop(r)
           [] onFrame[1] = "pause" -> setPaused(r, TRUE)
           [] onFrame[1] = "restart" -> start(stop(r))
           [] OTHER                -> r

\* a variant that takes the canvas without asking for its context
NewSpectrogramRendererUnchecked ==
    /\ rendererStatus = "none"
    /\ rendererStatus' = "constructed"
    /\ drawn' = [drawn EXCEPT !.clears = @ + 1]
    /\ UNCHANGED <<canvas, onFrame, animationFrameId, isPaused, rafPending, rafNext,
                   lastCall, ticks>>
    /\ UNCHANGED <<analyzerVars, binCall, moodVars, paletteCalls, particleVars, loopVars,
                   transportVars, labVars>>

\* new SpectrogramRenderer(canvas, audioAnalyzer, options, onFrame)
NewSpectrogramRenderer ==
    /\ rendererStatus = "none"
    /\ IF ~canvas.has2d
       THEN /\ rendererStatus' = "threw"
            /\ drawn' = drawn
       ELSE /\ rendererStatus' = "constructed"
            /\ drawn' = [drawn EXCEPT !.clears = @ + 1]
    /\ UNCHANGED <<canvas, onFrame, animationFrameId, isPaused, rafPending, rafNext,
                   lastCall, ticks>>
    /\ UNCHANGED <<analyzerVars, binCall, moodVars, paletteCalls, particleVars, loopVars,
                   transportVars, labVars>>

SetPaused ==
    /\ rendererStatus = "constructed"
    /\ \E paused \in BOOLEAN : SetRenderer(setPaused(Renderer, paused))
    /\ UNCHANGED <<canvas, onFrame, rendererStatus, drawn, ticks>>
    /\ UNCHANGED <<analyzerVars, binCall, moodVars, paletteCalls, particleVars, loopVars,
                   transportVars, labVars>>

Start ==
    /\ rendererStatus = "constructed"
    /\ rafNext <= MaxRequests
    /\ SetRenderer(start(Renderer))
    /\ UNCHANGED <<canvas, onFrame, rendererStatus, drawn, ticks>>
    /\ UNCHANGED <<analyzerVars, binCall, moodVars, paletteCalls, particleVars, loopVars,
                   transportVars, labVars>>

Stop ==
    /\ rendererStatus = "constructed"
    /\ SetRenderer(stop(Renderer))
    /\ UNCHANGED <<canvas, onFrame, rendererStatus, drawn, ticks>>
    /\ UNCHANGED <<analyzerVars, binCall, moodVars, paletteCalls, particleVars, loopVars,
                   transportVars, labVars>>

\* the browser runs a pending callback: loop(), that is drawFrame() and then
\* animationFrameId = requestAnimationFrame(loop)
RunLoop ==
    /\ rafNext <= MaxRequests
    /\ \E id \in rafPending : \E spectrum \in LabSpectra(Len(fftMagnitudes)) :
         LET path       == drawFramePath(canvas, isPaused)
             degenerate == path = "return"
             draws      == path = "column"
             fired      == cancelAnimationFrame(Renderer, id)
             called     == IF draws THEN CallOnFrame(fired) ELSE fired
         IN  /\ IF draws THEN getFrame(spectrum) ELSE UNCHANGED analyzerVars
             /\ SetRenderer(requestAnimationFrame(called))
             /\ drawn' = [drawn EXCEPT
                            !.scrolls = IF draws THEN @ + 1 ELSE @,
                            !.columns = IF draws THEN @ + 1 ELSE @,
                            !.axes    = IF degenerate THEN @ ELSE @ + 1]
             /\ ticks' = Append(ticks,
                  [afterStop  |-> lastCall = "stop",
                   paused     |-> isPaused,
                   degenerate |-> degenerate,
                   getFrame   |-> IF draws THEN 1 ELSE 0,
                   onFrame    |-> IF draws /\ onFrame # <<>> THEN 1 ELSE 0,
                   scrolls    |-> IF draws THEN 1 ELSE 0,
                   columns    |-> IF draws THEN 1 ELSE 0,
                   axes       |-> IF degenerate THEN 0 ELSE 1,
                   bandsBefore |-> bandsInternal,
                   bandsAfter  |-> bandsInternal'])
    /\ UNCHANGED <<canvas, onFrame, rendererStatus>>
    /\ UNCHANGED <<binCall, moodVars, paletteCalls, particleVars, loopVars,
                   transportVars, labVars>>

\* SpectrumLab's analyzer (a transform size of 64 in place of 2048)
LabAnalyzer ==
    Construct(44100, 64, <<-100, -30>>, <<13, 20>>, getDefaultFrequencyBands(44100))

InitRenderer ==
    /\ LabAnalyzer
    /\ BinsIdle
    /\ MoodIdle
    /\ PaletteIdle
    /\ canvas \in Canvases
    /\ onFrame \in {<<>>} \cup { <<c>> : c \in OnFrameCallbacks }
    /\ rendererStatus = "none"
    /\ animationFrameId = <<>>
    /\ isPaused = FALSE
    /\ rafPending = {}
    /\ rafNext = 1
    /\ lastCall = "none"
    /\ drawn = NothingDrawn
    /\ ticks = <<>>
    /\ ParticlesIdle
    /\ LoopIdle
    /\ TransportIdle
    /\ LabIdle

NextRenderer == NewSpectrogramRenderer \/ SetPaused \/ Start \/ Stop \/ RunLoop

SpecRenderer == InitRenderer /\ [][NextRenderer]_vars

-----------------------------------------------------------------------------
(* src/src/mood.ts: the new column of SpectrogramRenderer.drawFrame, row by  *)
(* row, and its colour map.                                                  *)

\* a variant that counts the rows from the bottom
columnBinIndexUpright(y, height, length) ==
    LET norm  == Div(Num(y), Num(height - 1))
        index == Mul(norm, Num(length - 1))
    IN  IF IsNaN(index) THEN 0 ELSE MathRound(index)

\* Math.round(norm * (freqData.length - 1)) || 0, with norm = 1 - y / (height - 1)
columnBinIndex(y, height, length) ==
    LET norm  == Sub(One, Div(Num(y), Num(height - 1)))
        index == Mul(norm, Num(length - 1))
    IN  IF IsNaN(index) THEN 0 ELSE MathRound(index)

colourMap(value) ==
    LET v == MathMin(MathMax(value, Zero), One)
    IN  IF Lt(v, <<1, 4>>)
        THEN LET t == Div(v, <<1, 4>>)
             IN  <<0, 0, MathRound(Add(Num(80), Mul(t, Num(60))))>>
        ELSE IF Lt(v, <<1, 2>>)
        THEN LET t == Div(Sub(v, <<1, 4>>), <<1, 4>>)
             IN  <<0, MathRound(Mul(t, Num(255))), 140 + MathRound(Mul(t, Num(115)))>>
        ELSE IF Lt(v, <<3, 4>>)
        THEN LET t == Div(Sub(v, <<1, 2>>), <<1, 4>>)
             IN  <<MathRound(Mul(t, Num(255))), 255,
                   MathRound(Sub(Num(255), Mul(t, Num(255))))>>
        ELSE LET t     == Div(Sub(v, <<3, 4>>), <<1, 4>>)
                 base  == 255
                 extra == MathRound(Mul(t, Num(30)))
             IN  <<base, base, base - 40 + extra>>

\* the normalized values the colour map is called on: steps of 1/40 from below 0 to
\* above 1
ColourValues == { Div(Num(n), Num(ColourSteps)) : n \in (-2)..(ColourSteps + 2) }

\* the loop over the rows of the new column, for a canvas height and a spectrum length
DrawColumn ==
    /\ binCall.op = "none"
    /\ \E height \in 1..MaxHeight : \E length \in 1..MaxLength :
         binCall' = [op |-> "column", height |-> height, length |-> length,
                     bins |-> [row \in 1..height |-> columnBinIndex(row - 1, height, length)]]
    /\ UNCHANGED <<analyzerVars, moodVars, paletteCalls>>
    /\ UNCHANGED pageVars

\* this.colourMap(value)
CallColourMap ==
    /\ binCall.op = "none"
    /\ \E value \in ColourValues :
         binCall' = [op |-> "colourMap", value |-> value, colour |-> colourMap(value)]
    /\ UNCHANGED <<analyzerVars, moodVars, paletteCalls>>
    /\ UNCHANGED pageVars

InitColumn ==
    /\ LabAnalyzer
    /\ BinsIdle
    /\ MoodIdle
    /\ PaletteIdle
    /\ PagesIdle

NextColumn == DrawColumn \/ CallColourMap

SpecColumn == InitColumn /\ [][NextColumn]_vars

-----------------------------------------------------------------------------
(* src/src/pages/VjVisuals.tsx: the particle pool of the VJ page.  The page  *)
(* exists in two versions: one with the compositions hybrid, star and orbit  *)
(* and a fullscreen handler, one with bars, rings, particles and hybrid; the *)
(* model offers the compositions of both (hybrid as in the first).           *)
(*                                                                           *)
(* Math.random() is a choice from a few values of [0, 1).  The values are    *)
(* picked so that a particle stays on the horizontal or the vertical line    *)
(* through the centre of the canvas, where its distance from the centre is   *)
(* a rational number.                                                        *)

\* the band count respawnParticle() and createParticles() assume when called without one
DefaultBandCount == 6

VisualModes == {"hybrid", "star", "orbit", "particles", "bars", "rings"}

\* <canvas width={1100} height={520}>
WindowedCanvas == [width |-> 1100, height |-> 520]

\* window.screen
ScreenCanvas == [width |-> 1920, height |-> 1080]

\* cos and sin of r turns (r * 2 * PI), for r a multiple of 1/4
CosTurns(r) == CASE r = Zero -> One [] r = Half -> Neg(One) [] OTHER -> Zero

SinTurns(r) == CASE r = <<1, 4>> -> One [] r = <<3, 4>> -> Neg(One) [] OTHER -> Zero

\* Math.sqrt(dx * dx + dy * dy), for a point on one of the two axes
Hypot(dx, dy) ==
    IF dy = Zero THEN RatAbs(dx)
    ELSE IF dx = Zero THEN RatAbs(dy)
    ELSE NaN

\* Math.floor of a number >= 0
MathFloor(a) == a[1] \div a[2]

\* the results of the Math.random() calls of one creation or respawn: a particle on
\* the horizontal axis flying left or right, or one in the centre, at rest when
\* created and flying down when respawned from the centre
DrawList ==
    << [x |-> Zero, y |-> Half, vx |-> Zero, vy |-> Half, angle |-> Half,
        speed |-> Zero, life |-> Zero, hue |-> Zero, band |-> Zero],
       [x |-> <<99, 100>>, y |-> Half, vx |-> <<3, 4>>, vy |-> Half, angle |-> Zero,
        speed |-> Half, life |-> <<99, 100>>, hue |-> <<99, 100>>, band |-> <<99, 100>>],
       [x |-> Half, y |-> Half, vx |-> Half, vy |-> Half, angle |-> <<1, 4>>,
        speed |-> Zero, life |-> Zero, hue |-> <<1, 4>>, band |-> <<3, 4>>] >>

RandomDraws == { DrawList[k] : k \in 1..Len(DrawList) }

\* the draws of the particles of the k-th createParticles() call, particle by particle
CreationDraws(count, k) ==
    [i \in 1..count |-> DrawList[((i - 1 + k) % Len(DrawList)) + 1]]

\* the passes of the loop before which the user may act
EventTicks == {0, 6, 12}

\* a variant that numbers the bands from 1
createParticlesBandFromOne(count, width, height, bandCount, draws) ==
    [i \in 1..count |->
        [x    |-> Mul(draws[i].x, Num(width)),
         y    |-> Mul(draws[i].y, Num(height)),
         vx   |-> Mul(Sub(draws[i].vx, Half), <<4, 5>>),
         vy   |-> Mul(Sub(draws[i].vy, Half), <<4, 5>>),
         life |-> Add(Mul(draws[i].life, <<4, 5>>), <<1, 5>>),
         hue  |-> Add(Num(190), Mul(draws[i].hue, Num(100))),
         band |-> ((i - 1) % MaxInt(1, bandCount)) + 1]]

\* createParticles(count, width, height, bandCount); particle i of the code is
\* element i + 1 of the sequence
createParticles(count, width, height, bandCount, draws) ==
    [i \in 1..count |->
        [x    |-> Mul(draws[i].x, Num(width)),
         y    |-> Mul(draws[i].y, Num(height)),
         vx   |-> Mul(Sub(draws[i].vx, Half), <<4, 5>>),
         vy   |-> Mul(Sub(draws[i].vy, Half), <<4, 5>>),
         life |-> Add(Mul(draws[i].life, <<4, 5>>), <<1, 5>>),
         hue  |-> Add(Num(190), Mul(draws[i].hue, Num(100))),
         band |-> (i - 1) % MaxInt(1, bandCount)]]

\* respawnParticle(p, width, height, bandCount)
respawnParticle(p, width, height, bandCount, d) ==
    [x    |-> Mul(d.x, Num(width)),
     y    |-> Mul(d.y, Num(height)),
     vx   |-> Mul(Sub(d.vx, Half), <<9, 10>>),
     vy   |-> Mul(Sub(d.vy, Half), <<9, 10>>),
     life |-> Add(Mul(d.life, <<4, 5>>), <<1, 5>>),
     hue  |-> Add(Num(180), Mul(d.hue, Num(140))),
     band |-> MathFloor(Mul(d.band, Num(MaxInt(1, bandCount))))]

\* a variant whose fresh life starts at 0
respawnParticleRadialLifeFromZero(p, cx, cy, bandCount, d) ==
    LET speed == Add(<<7, 20>>, Mul(d.speed, <<3, 5>>))
    IN  [x    |-> cx,
         y    |-> cy,
         vx   |-> Mul(CosTurns(d.angle), speed),
         vy   |-> Mul(SinTurns(d.angle), speed),
         life |-> Mul(d.life, <<4, 5>>),
         hue  |-> Add(Num(190), Mul(d.hue, Num(120))),
         band |-> MathFloor(Mul(d.band, Num(MaxInt(1, bandCount))))]

\* respawnParticleRadial(p, cx, cy, bandCount)
respawnParticleRadial(p, cx, cy, bandCount, d) ==
    LET speed == Add(<<7, 20>>, Mul(d.speed, <<3, 5>>))
    IN  [x    |-> cx,
         y    |-> cy,
         vx   |-> Mul(CosTurns(d.angle), speed),
         vy   |-> Mul(SinTurns(d.angle), speed),
         life |-> Add(<<4, 5>>, Mul(d.life, <<4, 5>>)),
         hue  |-> Add(Num(190), Mul(d.hue, Num(120))),
         band |-> MathFloor(Mul(d.band, Num(MaxInt(1, bandCount))))]

\* bands.reduce((a, b) => a + b, 0) / Math.max(bands.length, 1)
AvgEnergy(bands) == Div(SumRat(bands), Num(MaxInt(Len(bands), 1)))

\* bands[index] ?? fallback
BandOr(bands, index, fallback) ==
    IF index \in 0..(Len(bands) - 1) THEN bands[index + 1] ELSE fallback

\* the first statements of an update: the particle moved and aged
Advance(p, speed, step, decay) ==
    [p EXCEPT !.x = Add(@, Mul(Mul(p.vx, speed), Num(step))),
              !.y = Add(@, Mul(Mul(p.vy, speed), Num(step))),
              !.life = Sub(@, decay)]

\* a position to the nearest thousandth of a pixel: the model's stand-in for the
\* rounding of floating-point arithmetic, which keeps its numbers small
Thousandths(a) == Frac(MathRound(Mul(a, Num(1000))), 1000)

\* "if (dist < exclusionRadius)": the particle pushed out of the zone round the centre
PushOut(p, cx, cy, exclusionRadius, factor) ==
    LET dx   == Sub(p.x, cx)
        dy   == Sub(p.y, cy)
        dist == Hypot(dx, dy)
    IN  IF Lt(dist, exclusionRadius)
        THEN LET push  == Mul(Sub(exclusionRadius, dist), factor)
                 still == dx = Zero /\ dy = Zero
                 normX == IF still THEN One ELSE Div(dx, MathMax(dist, <<1, 1000>>))
                 normY == IF still THEN Zero ELSE Div(dy, MathMax(dist, <<1, 1000>>))
             IN  [p EXCEPT !.x = Thousandths(Add(@, Mul(normX, push))),
                           !.y = Thousandths(Add(@, Mul(normY, push)))]
        ELSE p

\* the respawn test of hybrid, star and orbit; dist is the distance before the push
OutOfBounds(p, dist, width, height, maxRadius) ==
    \/ Le(p.life, Zero)
    \/ Lt(p.x, Num(-80))
    \/ Lt(Num(width + 80), p.x)
    \/ Lt(p.y, Num(-80))
    \/ Lt(Num(height + 80), p.y)
    \/ Lt(maxRadius, dist)

\* what one iteration of an update loop leaves at the particle's index, and why
Updated(before, moved, respawned, fresh) ==
    [p         |-> IF respawned THEN fresh ELSE moved,
     expired   |-> Le(moved.life, Zero),
     respawned |-> respawned]

\* drawHybrid(): exclusionRadius = outerRing + 10
hybridExclusionRadius(width, height, bands) ==
    LET sub       == BandOr(bands, 0, Zero)
        bass      == BandOr(bands, 1, sub)
        ringBase  == Div(Num(MinInt(width, height)), <<17, 2>>)
        radius0   == Add(ringBase, Mul(sub, Num(90)))
        radius1   == Add(Add(ringBase, Mul(ringBase, <<4, 5>>)), Mul(bass, Num(90)))
        outerRing == MathMax(MathMax(Zero, Add(radius0, Add(Num(6), Mul(sub, Num(18))))),
                             Add(radius1, Add(Num(6), Mul(bass, Num(18)))))
    IN  Add(outerRing, Num(10))

\* drawOrbit(): exclusionRadius = avgCircleRadius + 40
\* (avgCircleRadius is the mean distance of the outline's points from the centre;
\* each band gives two points at spectrumRadius + 20 + 220 * value)
orbitExclusionRadius(width, height, bands) ==
    LET spectrumRadius  == Frac(MinInt(width, height), 9)
        avgCircleRadius == Add(Add(spectrumRadius, Num(20)), Mul(AvgEnergy(bands), Num(220)))
    IN  Add(avgCircleRadius, Num(40))

\* drawHybrid(): the particle update
drawHybrid(width, height, bands, particles, d) ==
    LET cx        == Frac(width, 2)
        cy        == Frac(height, 2)
        avgEnergy == AvgEnergy(bands)
        bandCount == MaxInt(Len(bands), 1)
        exclusionRadius == hybridExclusionRadius(width, height, bands)
        maxRadius == Mul(Num(MaxInt(width, height)), <<13, 20>>)
    IN  [i \in 1..Len(particles) |->
           LET p          == particles[i]
               bandEnergy == BandOr(bands, p.band, avgEnergy)
               speed      == Add(<<7, 20>>, Mul(bandEnergy, <<11, 5>>))
               aged       == Advance(p, speed, 6, Add(<<1, 200>>, Mul(bandEnergy, <<1, 100>>)))
               dist       == Hypot(Sub(aged.x, cx), Sub(aged.y, cy))
               moved      == PushOut(aged, cx, cy, exclusionRadius, <<2, 5>>)
           IN  Updated(p, moved, OutOfBounds(moved, dist, width, height, maxRadius),
                       respawnParticleRadial(moved, cx, cy, bandCount, d))]

\* a variant that removes the particles it would respawn
drawStarDropsExpired(width, height, bands, particles, d) ==
    LET cx        == Frac(width, 2)
        cy        == Frac(height, 2)
        avgEnergy == AvgEnergy(bands)
        bandCount == MaxInt(Len(bands), 1)
        maxRadius == Mul(Num(MaxInt(width, height)), <<7, 10>>)
        all == [i \in 1..Len(particles) |->
                 LET p          == particles[i]
                     bandEnergy == BandOr(bands, p.band, avgEnergy)
                     speed      == Add(Half, Mul(bandEnergy, <<5, 2>>))
                     moved      == Advance(p, speed, 5, Add(<<1, 250>>, Mul(bandEnergy, <<1, 125>>)))
                     dist       == Hypot(Sub(moved.x, cx), Sub(moved.y, cy))
                 IN  Updated(p, moved, OutOfBounds(moved, dist, width, height, maxRadius),
                             respawnParticleRadial(moved, cx, cy, bandCount, d))]
        Kept(u) == ~u.respawned
    IN  SelectSeq(all, Kept)

\* drawStar(): the particle update
drawStar(width, height, bands, particles, d) ==
    LET cx        == Frac(width, 2)
        cy        == Frac(height, 2)
        avgEnergy == AvgEnergy(bands)
        bandCount == MaxInt(Len(bands), 1)
        maxRadius == Mul(Num(MaxInt(width, height)), <<7, 10>>)
    IN  [i \in 1..Len(particles) |->
           LET p          == particles[i]
               bandEnergy == BandOr(bands, p.band, avgEnergy)
               speed      == Add(Half, Mul(bandEnergy, <<5, 2>>))
               moved      == Advance(p, speed, 5, Add(<<1, 250>>, Mul(bandEnergy, <<1, 125>>)))
               dist       == Hypot(Sub(moved.x, cx), Sub(moved.y, cy))
           IN  Updated(p, moved, OutOfBounds(moved, dist, width, height, maxRadius),
                       respawnParticleRadial(moved, cx, cy, bandCount, d))]

\* drawOrbit(): the particle update, with its own respawn on a circle round the
\* centre; the mean radius of the outline is spectrumRadius + 20 + 220 * avgEnergy
drawOrbit(width, height, bands, particles, d) ==
    LET cx        == Frac(width, 2)
        cy        == Frac(height, 2)
        avgEnergy == AvgEnergy(bands)
        exclusionRadius == orbitExclusionRadius(width, height, bands)
        maxRadius == Mul(Num(MaxInt(width, height)), <<7, 10>>)
        spawnDist == Add(Add(exclusionRadius, Num(10)), Mul(d.x, Num(30)))
        spawnSpeed == Add(<<7, 20>>, Mul(d.speed, <<3, 5>>))
    IN  [i \in 1..Len(particles) |->
           LET p          == particles[i]
               bandEnergy == BandOr(bands, p.band, avgEnergy)
               speed      == Add(Half, Mul(bandEnergy, <<5, 2>>))
               aged       == Advance(p, speed, 5, Add(<<1, 250>>, Mul(bandEnergy, <<1, 125>>)))
               dist       == Hypot(Sub(aged.x, cx), Sub(aged.y, cy))
               moved      == PushOut(aged, cx, cy, exclusionRadius, Half)
           IN  Updated(p, moved, OutOfBounds(moved, dist, width, height, maxRadius),
                       [moved EXCEPT
                          !.x    = Add(cx, Mul(CosTurns(d.angle), spawnDist)),
                          !.y    = Add(cy, Mul(SinTurns(d.angle), spawnDist)),
                          !.vx   = Mul(CosTurns(d.angle), spawnSpeed),
                          !.vy   = Mul(SinTurns(d.angle), spawnSpeed),
                          !.life = Add(<<4, 5>>, Mul(d.life, <<4, 5>>)),
                          !.band = MathFloor(Mul(d.band, Num(Len(bands))))])]

\* drawParticles(): the particle update; it calls respawnParticle() without a band count
drawParticles(width, height, bands, particles, d) ==
    LET avgEnergy == AvgEnergy(bands)
        boost     == Add(<<7, 10>>, Mul(avgEnergy, <<16, 5>>))
    IN  [i \in 1..Len(particles) |->
           LET p     == particles[i]
               moved == Advance(p, boost, 6, Add(<<1, 250>>, Mul(avgEnergy, <<1, 100>>)))
           IN  Updated(p, moved,
                       \/ Le(moved.life, Zero)
                       \/ Lt(moved.x, Num(-20))
                       \/ Lt(Num(width + 20), moved.x)
                       \/ Lt(moved.y, Num(-20))
                       \/ Lt(Num(height + 20), moved.y),
                       respawnParticle(moved, width, height, DefaultBandCount, d))]

\* renderFrame(): the particle update of the composition chosen (bars and rings
\* leave the particles alone)
renderFrame(cv, mode, bands, particles, d) ==
    CASE mode = "hybrid"    -> drawHybrid(cv.width, cv.height, bands, particles, d)
      [] mode = "star"      -> drawStar(cv.width, cv.height, bands, particles, d)
      [] mode = "orbit"     -> drawOrbit(cv.width, cv.height, bands, particles, d)
      [] mode = "particles" -> drawParticles(cv.width, cv.height, bands, particles, d)
      [] OTHER -> [i \in 1..Len(particles) |->
                     [p |-> particles[i], expired |-> FALSE, respawned |-> FALSE]]

\* a variant of the draw pass that draws every particle of the pool
drawParticlePassAll(cv, mode, bands, particles) ==
    IF mode \in {"hybrid", "star", "orbit", "particles"} THEN 1..Len(particles) ELSE {}

\* the draw pass over the pool after the update: the indices of the particles drawn
\* (hybrid and orbit skip those inside the exclusion radius, bars and rings draw none)
drawParticlePass(cv, mode, bands, particles) ==
    LET cx == Frac(cv.width, 2)
        cy == Frac(cv.height, 2)
        dist(p) == Hypot(Sub(p.x, cx), Sub(p.y, cy))
    IN  CASE mode = "hybrid" ->
               { i \in 1..Len(particles) :
                   ~Lt(dist(particles[i]), hybridExclusionRadius(cv.width, cv.height, bands)) }
          [] mode = "orbit" ->
               { i \in 1..Len(particles) :
                   ~Lt(dist(particles[i]), orbitExclusionRadius(cv.width, cv.height, bands)) }
          [] mode \in {"star", "particles"} -> 1..Len(particles)
          [] OTHER -> {}

\* the band energies of a frame: silence, full scale, and a mixed frame
FrameBands ==
    { SixBands(Zero, Zero, Zero, Zero, Zero, Zero),
      SixBands(One, One, One, One, One, One),
      SixBands(Half, Zero, Zero, One, Zero, Zero) }

\* one pass of the page's loop on the pool: renderFrame() on the bands of the frame
VisualTick ==
    /\ vjTickCount < MaxVisualTicks
    /\ Len(particlesRef.items) > 0
    /\ \E d \in RandomDraws :
         \E updated \in {renderFrame(vjCanvas, visualModeRef, music, particlesRef.items, d)} :
             /\ particlesRef' = [particlesRef EXCEPT
                   !.items = [i \in 1..Len(updated) |-> updated[i].p]]
             /\ lastTick' = [mode      |-> visualModeRef,
                             before    |-> particlesRef,
                             expired   |-> { i \in 1..Len(updated) : updated[i].expired },
                             respawned |-> { i \in 1..Len(updated) : updated[i].respawned },
                             drawn     |-> drawParticlePass(vjCanvas, visualModeRef, music,
                                                            particlesRef'.items)]
    /\ vjTickCount' = vjTickCount + 1
    /\ UNCHANGED <<vjCanvas, visualModeRef, music, userEvents>>
    /\ UNCHANGED <<analyzerVars, binCall, moodVars, paletteCalls, rendererVars, loopVars,
                   transportVars, labVars>>

\* the page's effect: the first createParticles() call
MountVisuals ==
    /\ particlesRef.allocations = 0
    /\ particlesRef' = [allocations |-> 1,
                        items |-> createParticles(PoolSize, vjCanvas.width, vjCanvas.height,
                                                  Len(getBandsConfig),
                                                  CreationDraws(PoolSize, 0))]
    /\ UNCHANGED <<vjCanvas, visualModeRef, music, lastTick, vjTickCount, userEvents>>
    /\ UNCHANGED <<analyzerVars, binCall, moodVars, paletteCalls, rendererVars, loopVars,
                   transportVars, labVars>>

\* setVisualMode(mode), by a button
SetVisualMode ==
    /\ userEvents < MaxUserEvents
    /\ vjTickCount \in EventTicks
    /\ \E mode \in VisualModes \ {visualModeRef} : visualModeRef' = mode
    /\ userEvents' = userEvents + 1
    /\ UNCHANGED <<vjCanvas, particlesRef, music, lastTick, vjTickCount>>
    /\ UNCHANGED <<analyzerVars, binCall, moodVars, paletteCalls, rendererVars, loopVars,
                   transportVars, labVars>>

\* handleFullscreenChange(): the canvas resized and a new pool created
HandleFullscreenChange ==
    /\ userEvents < MaxUserEvents
    /\ vjTickCount \in EventTicks
    /\ particlesRef.allocations > 0
    /\ vjCanvas' = IF vjCanvas = WindowedCanvas THEN ScreenCanvas ELSE WindowedCanvas
    /\ particlesRef' = [allocations |-> particlesRef.allocations + 1,
                        items |-> createParticles(PoolSize, vjCanvas'.width, vjCanvas'.height,
                                                  Len(getBandsConfig),
                                                  CreationDraws(PoolSize, particlesRef.allocations))]
    /\ userEvents' = userEvents + 1
    /\ UNCHANGED <<visualModeRef, music, lastTick, vjTickCount>>
    /\ UNCHANGED <<analyzerVars, binCall, moodVars, paletteCalls, rendererVars, loopVars,
                   transportVars, labVars>>

InitParticles ==
    /\ VjAnalyzer
    /\ BinsIdle
    /\ MoodIdle
    /\ PaletteIdle
    /\ RendererIdle
    /\ vjCanvas = WindowedCanvas
    /\ particlesRef = NoParticles
    /\ visualModeRef \in {"hybrid", "bars"}
    /\ music \in FrameBands
    /\ lastTick = NoTick
    /\ vjTickCount = 0
    /\ userEvents = 0
    /\ LoopIdle
    /\ TransportIdle
    /\ LabIdle

NextParticles ==
    MountVisuals \/ VisualTick \/ SetVisualMode \/ HandleFullscreenChange

SpecParticles == InitParticles /\ [][NextParticles]_vars

-----------------------------------------------------------------------------
(* src/src/pages/VjVisuals.tsx: the page's animation loop, in the version   *)
(* that derives the palette from the mood and in the one with named         *)
(* palettes (paletteNameRef is <<>> in the first).                          *)

PaletteNames == {"metal", "jazz"}

\* getPalette(name): the fixed palette of that name
getPalette(name) == [name |-> name]

\* the spectra of the loop's frames: flat at minDecibels, in the middle, at maxDecibels
LoopSpectra(len) == { [k \in 1..len |-> v] : v \in {-100, -65, -30} }

\* a variant that hands out the band energies of the frame before
frameBandsOfPreviousFrame(fs) ==
    [i \in 1..Len(fs[Len(fs)]) |->
        IF Len(fs) > 1 THEN fs[Len(fs) - 1][i].smoothed ELSE Zero]

\* frame.bands of the frame getFrame() returned last
frameBands(fs) == [i \in 1..Len(fs[Len(fs)]) |-> fs[Len(fs)][i].smoothed]

\* the page's effect: band metadata, the particle pool, and the first request
MountLoop ==
    /\ particlesRef.allocations = 0
    /\ bandMetaRef' = IF paletteNameRef = <<>> THEN BandMetaOf(getBandsConfig) ELSE bandMetaRef
    /\ particlesRef' = [allocations |-> 1,
                        items |-> createParticles(PoolSize, vjCanvas.width, vjCanvas.height,
                                                  Len(getBandsConfig),
                                                  CreationDraws(PoolSize, 0))]
    /\ animationRef' = <<rafNext>>
    /\ rafPending' = rafPending \cup {rafNext}
    /\ rafNext' = rafNext + 1
    /\ UNCHANGED <<analyzerVars, binCall, moodRef, moodCalls, paletteCalls>>
    /\ UNCHANGED <<canvas, onFrame, rendererStatus, animationFrameId, isPaused, lastCall,
                   drawn, ticks>>
    /\ UNCHANGED <<vjCanvas, visualModeRef, music, lastTick, vjTickCount, userEvents>>
    /\ UNCHANGED <<paletteNameRef, rendered>>
    /\ UNCHANGED <<transportVars, labVars>>

\* the browser runs the pending callback: loop(), from getFrame() to the request of
\* the next animation frame
LoopTick ==
    /\ Len(frames) < MaxFrames
    /\ \E id \in rafPending : \E spectrum \in LoopSpectra(Len(fftMagnitudes)) :
       \E d \in RandomDraws :
         /\ getFrame(spectrum)
         /\ \E bands \in {frameBands(frames')} :
              /\ IF paletteNameRef = <<>>
                 THEN /\ moodRef' = <<updateMoodFromBands(moodRef, bands, bandMetaRef)>>
                      /\ moodCalls' = Append(moodCalls,
                           [prev |-> moodRef, bands |-> bands, result |-> moodRef'[1]])
                      /\ paletteCalls' = Append(paletteCalls,
                           [mood |-> moodRef'[1], palette |-> paletteFromMood(moodRef'[1]),
                            after |-> Len(moodCalls')])
                      /\ rendered' = [tick |-> Len(frames'), bands |-> bands,
                                      palette |-> paletteCalls'[Len(paletteCalls')].palette]
                 ELSE /\ UNCHANGED <<moodRef, moodCalls, paletteCalls>>
                      /\ rendered' = [tick |-> Len(frames'), bands |-> bands,
                                      palette |-> getPalette(paletteNameRef[1])]
              /\ music' = bands
              /\ \E updated \in {renderFrame(vjCanvas, visualModeRef, bands,
                                             particlesRef.items, d)} :
                   /\ particlesRef' = [particlesRef EXCEPT
                         !.items = [i \in 1..Len(updated) |-> updated[i].p]]
                   /\ lastTick' = [mode      |-> visualModeRef,
                                   before    |-> particlesRef,
                                   expired   |-> { i \in 1..Len(updated) : updated[i].expired },
                                   respawned |-> { i \in 1..Len(updated) : updated[i].respawned },
                                   drawn     |-> drawParticlePass(vjCanvas, visualModeRef, bands,
                                                                  particlesRef'.items)]
         /\ animationRef' = <<rafNext>>
         /\ rafPending' = (rafPending \ {id}) \cup {rafNext}
         /\ rafNext' = rafNext + 1
    /\ vjTickCount' = vjTickCount + 1
    /\ UNCHANGED <<binCall, bandMetaRef>>
    /\ UNCHANGED <<canvas, onFrame, rendererStatus, animationFrameId, isPaused, lastCall,
                   drawn, ticks>>
    /\ UNCHANGED <<vjCanvas, visualModeRef, userEvents, paletteNameRef>>
    /\ UNCHANGED <<transportVars, labVars>>

\* the effect's cleanup: the pending callback cancelled
UnmountLoop ==
    /\ animationRef # <<>>
    /\ rafPending # {}
    /\ rafPending' = rafPending \ {animationRef[1]}
    /\ UNCHANGED <<analyzerVars, binCall, moodVars, paletteCalls>>
    /\ UNCHANGED <<canvas, onFrame, rendererStatus, animationFrameId, isPaused, rafNext,
                   lastCall, drawn, ticks>>
    /\ UNCHANGED <<particleVars, loopVars, transportVars, labVars>>

\* new AudioAnalyzer({ fftSize: 2048, bandSmoothingAlpha: 0.6 }), with the
\* transform scaled down to 64 points
LoopAnalyzer == Construct(44100, 64, <<-100, -30>>, <<3, 5>>, getDefaultFrequencyBands(44100))

InitLoop ==
    /\ LoopAnalyzer
    /\ BinsIdle
    /\ MoodIdle
    /\ PaletteIdle
    /\ RendererIdle
    /\ vjCanvas = WindowedCanvas
    /\ particlesRef = NoParticles
    /\ visualModeRef \in {"hybrid", "particles", "bars"}
    /\ music = <<>>
    /\ lastTick = NoTick
    /\ vjTickCount = 0
    /\ userEvents = 0
    /\ animationRef = <<>>
    /\ paletteNameRef \in {<<>>} \cup { <<n>> : n \in PaletteNames }
    /\ rendered = NoRender
    /\ TransportIdle
    /\ LabIdle

NextLoop == MountLoop \/ LoopTick \/ UnmountLoop

SpecLoop == InitLoop /\ [][NextLoop]_vars

-----------------------------------------------------------------------------
(* src/src/App.tsx: the transport of AudioAnalyzer (AudioManager in          *)
(* src/src/audio.ts has the same methods under other names).  The audio      *)
(* context's clock advances in whole seconds.  A source node is a record of  *)
(* its identity, the buffer offset it was started at and the clock at that   *)
(* moment; the browser queues its 'ended' event when it is stopped or        *)
(* reaches the end of the buffer.                                            *)

\* the durations of the files, in seconds
Durations == {3, 5}

\* the fields of the transport
Snapshot ==
    [currentMode     |-> currentMode,
     fileSource      |-> fileSource,
     fileBuffer      |-> fileBuffer,
     filePauseOffset |-> filePauseOffset,
     fileStartTime   |-> fileStartTime,
     micStream       |-> micStream,
     micSource       |-> micSource]

\* the position of a source in its buffer
Position(source) == source.offset + (currentTime - source.at)

\* a variant of stop() that keeps the playback position
stopCurrentSourceKeepsPosition ==
    /\ fileSource' = <<>>
    /\ endedEvents' = IF fileSource # <<>> THEN endedEvents \cup {fileSource[1].id}
                                           ELSE endedEvents
    /\ filePauseOffset' = filePauseOffset
    /\ fileStartTime' = fileStartTime
    /\ micSource' = <<>>
    /\ micStream' = <<>>
    /\ currentMode' = "idle"
    /\ played' = 0
    /\ UNCHANGED fileBuffer

\* stop() (stopCurrentSource() of AudioManager): its body has no await
stopCurrentSource ==
    /\ fileSource' = <<>>
    /\ endedEvents' = IF fileSource # <<>> THEN endedEvents \cup {fileSource[1].id}
                                           ELSE endedEvents
    /\ filePauseOffset' = 0
    /\ fileStartTime' = 0
    /\ micSource' = <<>>
    /\ micStream' = <<>>
    /\ currentMode' = "idle"
    /\ played' = 0
    /\ UNCHANGED fileBuffer

startFilePlayback ==
    IF fileBuffer = <<>> \/ fileSource # <<>>
    THEN UNCHANGED <<currentMode, fileSource, filePauseOffset, fileStartTime, played,
                     nextSource>>
    ELSE \E offset \in {IF filePauseOffset >= fileBuffer[1] THEN 0 ELSE filePauseOffset} :
           /\ filePauseOffset' = offset
           /\ fileStartTime' = currentTime - offset
           /\ fileSource' = <<[id |-> nextSource, offset |-> offset, at |-> currentTime]>>
           /\ nextSource' = nextSource + 1
           /\ currentMode' = "file"
           /\ played' = IF filePauseOffset >= fileBuffer[1] THEN 0 ELSE played

startMicCapture ==
    /\ currentMode' = IF micSource = <<>> THEN currentMode ELSE "mic"
    /\ UNCHANGED <<fileSource, filePauseOffset, fileStartTime, played, nextSource>>

TransportStart ==
    /\ nextSource <= MaxSources
    /\ CASE currentMode = "file" -> startFilePlayback
         [] currentMode = "mic"  -> startMicCapture
         [] OTHER -> UNCHANGED <<currentMode, fileSource, filePauseOffset, fileStartTime,
                                 played, nextSource>>
    /\ lastOp' = [op |-> "start", before |-> Snapshot]
    /\ UNCHANGED <<fileBuffer, micStream, micSource, currentTime, endedEvents, pending>>
    /\ UNCHANGED <<analyzerVars, binCall, moodVars, paletteCalls>>
    /\ UNCHANGED <<rendererVars, particleVars, loopVars>>

PauseFile ==
    /\ IF fileSource = <<>>
       THEN UNCHANGED <<fileSource, filePauseOffset, endedEvents>>
       ELSE /\ fileSource' = <<>>
            /\ endedEvents' = endedEvents \cup {fileSource[1].id}
            /\ \E elapsed \in {currentTime - fileStartTime} :
               \E duration \in {IF fileBuffer = <<>> THEN 0 ELSE fileBuffer[1]} :
               \E newOffset \in {filePauseOffset + elapsed} :
                 filePauseOffset' = IF duration > 0
                                    THEN MinInt(MaxInt(newOffset, 0), duration)
                                    ELSE newOffset
    /\ lastOp' = [op |-> "pauseFile", before |-> Snapshot]
    /\ UNCHANGED <<currentMode, fileBuffer, fileStartTime, micStream, micSource,
                   currentTime, played, nextSource, pending>>
    /\ UNCHANGED <<analyzerVars, binCall, moodVars, paletteCalls>>
    /\ UNCHANGED <<rendererVars, particleVars, loopVars>>

TransportStop ==
    /\ stopCurrentSource
    /\ lastOp' = [op |-> "stop", before |-> Snapshot]
    /\ UNCHANGED <<currentTime, nextSource, pending>>
    /\ UNCHANGED <<analyzerVars, binCall, moodVars, paletteCalls>>
    /\ UNCHANGED <<rendererVars, particleVars, loopVars>>

\* setSourceFromFile(file) up to its await of the file's bytes
SetSourceFromFile ==
    /\ \E duration \in Durations :
         /\ \A p \in pending : p.kind # "file"
         /\ pending' = pending \cup {[kind |-> "file", duration |-> duration]}
    /\ stopCurrentSource
    /\ lastOp' = [op |-> "stop", before |-> Snapshot]
    /\ UNCHANGED <<currentTime, nextSource>>
    /\ UNCHANGED <<analyzerVars, binCall, moodVars, paletteCalls>>
    /\ UNCHANGED <<rendererVars, particleVars, loopVars>>

\* setSourceFromFile(file) after decodeAudioData() has resolved
FileDecoded ==
    /\ \E p \in pending :
         /\ p.kind = "file"
         /\ pending' = pending \ {p}
         /\ fileBuffer' = <<p.duration>>
    /\ filePauseOffset' = 0
    /\ fileStartTime' = 0
    /\ currentMode' = "file"
    /\ played' = 0
    /\ lastOp' = NoOp
    /\ UNCHANGED <<fileSource, micStream, micSource, currentTime, endedEvents, nextSource>>
    /\ UNCHANGED <<analyzerVars, binCall, moodVars, paletteCalls>>
    /\ UNCHANGED <<rendererVars, particleVars, loopVars>>

\* setSourceFromMic() up to its await of getUserMedia()
SetSourceFromMic ==
    /\ \A p \in pending : p.kind # "mic"
    /\ pending' = pending \cup {[kind |-> "mic", duration |-> 0]}
    /\ stopCurrentSource
    /\ lastOp' = [op |-> "stop", before |-> Snapshot]
    /\ UNCHANGED <<currentTime, nextSource>>
    /\ UNCHANGED <<analyzerVars, binCall, moodVars, paletteCalls>>
    /\ UNCHANGED <<rendererVars, particleVars, loopVars>>

\* setSourceFromMic() after getUserMedia() has resolved
MicGranted ==
    /\ \E p \in pending :
         /\ p.kind = "mic"
         /\ pending' = pending \ {p}
    /\ micStream' = <<"stream">>
    /\ micSource' = <<"source">>
    /\ currentMode' = "mic"
    /\ lastOp' = NoOp
    /\ UNCHANGED <<fileSource, fileBuffer, filePauseOffset, fileStartTime, currentTime,
                   played, endedEvents, nextSource>>
    /\ UNCHANGED <<analyzerVars, binCall, moodVars, paletteCalls>>
    /\ UNCHANGED <<rendererVars, particleVars, loopVars>>

\* the 'ended' listener of the stream's tracks
TrackEnded ==
    /\ micStream # <<>>
    /\ currentMode = "mic"
    /\ stopCurrentSource
    /\ lastOp' = [op |-> "stop", before |-> Snapshot]
    /\ UNCHANGED <<currentTime, nextSource, pending>>
    /\ UNCHANGED <<analyzerVars, binCall, moodVars, paletteCalls>>
    /\ UNCHANGED <<rendererVars, particleVars, loopVars>>

\* a variant of source.onended that does not look at which source has ended
OnEndedUnchecked ==
    /\ \E id \in endedEvents :
         /\ endedEvents' = endedEvents \ {id}
         /\ fileSource' = <<>>
         /\ filePauseOffset' = 0
         /\ currentMode' = "idle"
         /\ played' = 0
         /\ lastOp' = [op |-> "ended", before |-> Snapshot, source |-> id]
    /\ UNCHANGED <<fileBuffer, fileStartTime, micStream, micSource, currentTime,
                   nextSource, pending>>
    /\ UNCHANGED <<analyzerVars, binCall, moodVars, paletteCalls>>
    /\ UNCHANGED <<rendererVars, particleVars, loopVars>>

\* source.onended of a source whose 'ended' event is queued
OnEnded ==
    /\ \E id \in endedEvents :
         /\ endedEvents' = endedEvents \ {id}
         /\ IF fileSource # <<>> /\ fileSource[1].id = id
            THEN /\ fileSource' = <<>>
                 /\ filePauseOffset' = 0
                 /\ currentMode' = "idle"
                 /\ played' = 0
            ELSE UNCHANGED <<fileSource, filePauseOffset, currentMode, played>>
         /\ lastOp' = [op |-> "ended", before |-> Snapshot, source |-> id]
    /\ UNCHANGED <<fileBuffer, fileStartTime, micStream, micSource, currentTime,
                   nextSource, pending>>
    /\ UNCHANGED <<analyzerVars, binCall, moodVars, paletteCalls>>
    /\ UNCHANGED <<rendererVars, particleVars, loopVars>>

\* audioContext.currentTime advances by a second; a playing source advances with it
\* and its 'ended' event is queued when it reaches the end of its buffer
ClockTick ==
    /\ currentTime < MaxClock
    /\ currentTime' = currentTime + 1
    /\ IF fileSource # <<>> /\ fileBuffer # <<>> /\ Position(fileSource[1]) < fileBuffer[1]
       THEN /\ played' = played + 1
            /\ endedEvents' = IF Position(fileSource[1]) + 1 >= fileBuffer[1]
                              THEN endedEvents \cup {fileSource[1].id}
                              ELSE endedEvents
       ELSE UNCHANGED <<played, endedEvents>>
    /\ lastOp' = NoOp
    /\ UNCHANGED <<currentMode, fileSource, fileBuffer, filePauseOffset, fileStartTime,
                   micStream, micSource, nextSource, pending>>
    /\ UNCHANGED <<analyzerVars, binCall, moodVars, paletteCalls>>
    /\ UNCHANGED <<rendererVars, particleVars, loopVars>>

InitTransport ==
    /\ LabAnalyzer
    /\ BinsIdle
    /\ MoodIdle
    /\ PaletteIdle
    /\ RendererIdle
    /\ ParticlesIdle
    /\ LoopIdle
    /\ TransportIdle
    /\ LabIdle

NextTransport ==
    \/ SetSourceFromFile /\ UNCHANGED labVars
    \/ FileDecoded /\ UNCHANGED labVars
    \/ SetSourceFromMic /\ UNCHANGED labVars
    \/ MicGranted /\ UNCHANGED labVars
    \/ TransportStart /\ UNCHANGED labVars
    \/ PauseFile /\ UNCHANGED labVars
    \/ TransportStop /\ UNCHANGED labVars
    \/ TrackEnded /\ UNCHANGED labVars
    \/ OnEnded /\ UNCHANGED labVars
    \/ ClockTick /\ UNCHANGED labVars

SpecTransport == InitTransport /\ [][NextTransport]_vars

-----------------------------------------------------------------------------
(* src/src/pages/SpectrumLab.tsx: the page's source controls over the        *)
(* analyzer's transport.  A handler's continuation after an await runs when  *)
(* the awaited promise has resolved; the buttons' disabled conditions are    *)
(* the guards.                                                               *)

\* handleFileChange up to its await of setSourceFromFile(file)
HandleFileChange ==
    /\ SetSourceFromFile
    /\ UNCHANGED labVars

\* handleFileChange after setSourceFromFile(file) has resolved
FileChangeLoaded ==
    /\ FileDecoded
    /\ labMode' = "file"
    /\ hasFile' = TRUE
    /\ isFilePlaying' = FALSE

\* the Play button
HandleFilePlay ==
    /\ hasFile
    /\ ~isFilePlaying
    /\ TransportStart
    /\ IF currentMode = "file" /\ fileBuffer = <<>>
       THEN UNCHANGED labVars
       ELSE /\ labMode' = "file"
            /\ isFilePlaying' = TRUE
            /\ UNCHANGED hasFile

\* the Pause button
HandleFilePause ==
    /\ hasFile
    /\ isFilePlaying
    /\ PauseFile
    /\ isFilePlaying' = FALSE
    /\ labMode' = "file"
    /\ UNCHANGED hasFile

\* handlePresetPlay up to its await of setSourceFromUrl(url, name)
HandlePresetPlay ==
    /\ \E duration \in Durations :
         /\ \A p \in pending : p.kind # "preset"
         /\ pending' = pending \cup {[kind |-> "preset", duration |-> duration]}
    /\ stopCurrentSource
    /\ lastOp' = [op |-> "stop", before |-> Snapshot]
    /\ UNCHANGED <<currentTime, nextSource>>
    /\ UNCHANGED <<analyzerVars, binCall, moodVars, paletteCalls>>
    /\ UNCHANGED <<rendererVars, particleVars, loopVars>>
    /\ UNCHANGED labVars

\* handlePresetPlay after setSourceFromUrl() has resolved: the buffer assigned,
\* then start()
PresetLoaded ==
    /\ nextSource <= MaxSources
    /\ \E p \in pending :
         /\ p.kind = "preset"
         /\ pending' = pending \ {p}
         /\ fileBuffer' = <<p.duration>>
    /\ filePauseOffset' = 0
    /\ currentMode' = "file"
    /\ played' = 0
    /\ IF fileSource # <<>>
       THEN /\ fileStartTime' = 0
            /\ UNCHANGED <<fileSource, nextSource>>
       ELSE /\ fileStartTime' = currentTime
            /\ fileSource' = <<[id |-> nextSource, offset |-> 0, at |-> currentTime]>>
            /\ nextSource' = nextSource + 1
    /\ lastOp' = NoOp
    /\ labMode' = "file"
    /\ hasFile' = TRUE
    /\ isFilePlaying' = TRUE
    /\ UNCHANGED <<micStream, micSource, currentTime, endedEvents>>
    /\ UNCHANGED <<analyzerVars, binCall, moodVars, paletteCalls>>
    /\ UNCHANGED <<rendererVars, particleVars, loopVars>>

\* handleMicToggle, up to its await of setSourceFromMic() when the microphone is off
HandleMicToggle ==
    IF labMode = "mic"
    THEN /\ TransportStop
         /\ labMode' = "idle"
         /\ UNCHANGED <<hasFile, isFilePlaying>>
    ELSE /\ SetSourceFromMic
         /\ UNCHANGED labVars

\* handleMicToggle after setSourceFromMic() has resolved: start() connects the source
MicToggleGranted ==
    /\ MicGranted
    /\ labMode' = "mic"
    /\ isFilePlaying' = FALSE
    /\ UNCHANGED hasFile

\* the Stop button
HandleStop ==
    /\ labMode # "idle"
    /\ TransportStop
    /\ labMode' = "idle"
    /\ isFilePlaying' = FALSE
    /\ UNCHANGED hasFile

InitLab ==
    /\ LabAnalyzer
    /\ BinsIdle
    /\ MoodIdle
    /\ PaletteIdle
    /\ PagesIdle

NextLab ==
    \/ HandleFileChange
    \/ FileChangeLoaded
    \/ HandleFilePlay
    \/ HandleFilePause
    \/ HandlePresetPlay
    \/ PresetLoaded
    \/ HandleMicToggle
    \/ MicToggleGranted
    \/ HandleStop
    \/ TrackEnded /\ UNCHANGED labVars
    \/ OnEnded /\ UNCHANGED labVars
    \/ ClockTick /\ UNCHANGED labVars

SpecLab == InitLab /\ [][NextLab]_vars

-----------------------------------------------------------------------------
(* Properties.                                                              *)


RECURSIVE Pow(_, _)
Pow(a, n) == IF n = 0 THEN One ELSE Mul(a, Pow(a, n - 1))

BandIndices == 1..Len(bandsInternal)

FrameIndices == 1..Len(frames)

\* C1: after any sequence of getFrame() calls on any spectra, every band energy
\* getFrame() returned and every stored smoothedValue lies in [0, 1].
BandEnergiesIn01 ==
    /\ \A i \in BandIndices : In01(bandsInternal[i].smoothedValue)
    /\ \A j \in FrameIndices : \A i \in BandIndices : In01(frames[j][i].smoothed)

\* C1 witness: two frames or more, with a band average above maxDecibels, one below
\* minDecibels, and a band whose energy has moved off 0.
BandEnergiesIn01Witness ==
    /\ Len(frames) >= 2
    /\ \E j \in FrameIndices : \E i \in BandIndices : Lt(Num(maxDecibels), frames[j][i].avgDb)
    /\ \E j \in FrameIndices : \E i \in BandIndices : Lt(frames[j][i].avgDb, Num(minDecibels))
    /\ \E i \in BandIndices : Lt(Zero, bandsInternal[i].smoothedValue)

\* C2: for minDecibels <= maxDecibels, the normalized value of every band average db
\* is in [0, 1]; it is 0 for db <= minDecibels (and for a zero-width range); for
\* minDecibels < maxDecibels it is 1 for db >= maxDecibels and in between it is
\* (db - minDecibels) / (maxDecibels - minDecibels).  A flat -30 dB spectrum with the
\* range -100/-30 normalizes every band with a non-empty bin range to 1.
NormalizeDecibelsReference ==
    /\ minDecibels <= maxDecibels
    /\ \A j \in FrameIndices : \A i \in BandIndices :
         LET db == frames[j][i].avgDb
             n  == frames[j][i].normalized
             lo == Num(minDecibels)
             hi == Num(maxDecibels)
         IN  /\ In01(n)
             /\ Le(db, lo) => n = Zero
             /\ minDecibels = maxDecibels => n = Zero
             /\ (minDecibels < maxDecibels /\ Le(hi, db)) => n = One
             /\ (Lt(lo, db) /\ Lt(db, hi)) => Mul(n, Sub(hi, lo)) = Sub(db, lo)
    /\ ( /\ Len(frames) > 0
         /\ minDecibels = -100
         /\ maxDecibels = -30
         /\ \A k \in 1..Len(fftMagnitudes) : fftMagnitudes[k] = -30 )
       => \A i \in BandIndices :
            frames[Len(frames)][i].binCount > 0 => frames[Len(frames)][i].normalized = One

\* C2 witness: the default bands, an earlier frame with a band average strictly inside
\* the range -100/-30, and the last frame taken on a flat -30 dB spectrum.
NormalizeDecibelsReferenceWitness ==
    /\ Len(frames) >= 2
    /\ Len(bandsInternal) = 6
    /\ minDecibels = -100
    /\ maxDecibels = -30
    /\ \A k \in 1..Len(fftMagnitudes) : fftMagnitudes[k] = -30
    /\ \E i \in BandIndices :
         /\ Lt(Zero, frames[1][i].normalized)
         /\ Lt(frames[1][i].normalized, One)
    /\ \A i \in BandIndices : frames[Len(frames)][i].normalized = One

\* band i's normalized input is the same in the frames a..b
HeldConstant(i, a, b) == \A j \in a..b : frames[j][i].normalized = frames[a][i].normalized

\* C3: the smoothing state persists from frame to frame, starting at 0; while a band's
\* normalized input is held at v over n consecutive getFrame() calls, each call moves
\* the smoothed value toward v without passing it, and the (signed) distance to v
\* after the n calls is (1 - alpha)^n times the distance before them.  Stated for the
\* runs that end with the latest call: a run that ended earlier is such a run in the
\* state that call produced.
SmoothingConvergence ==
    \A i \in BandIndices :
      LET b == Len(frames)
      IN  b > 0 =>
            /\ frames[b][i].prev = IF b = 1 THEN Zero ELSE frames[b - 1][i].smoothed
            /\ bandsInternal[i].smoothedValue = frames[b][i].smoothed
            /\ LET v == frames[b][i].normalized
               IN  /\ Le(MathMin(frames[b][i].prev, v), frames[b][i].smoothed)
                   /\ Le(frames[b][i].smoothed, MathMax(frames[b][i].prev, v))
                   /\ Le(RatAbs(Sub(frames[b][i].smoothed, v)),
                         RatAbs(Sub(frames[b][i].prev, v)))
                   /\ \A a \in 1..b :
                        HeldConstant(i, a, b) =>
                          Sub(frames[b][i].smoothed, v)
                            = Mul(Pow(Sub(One, bandSmoothingAlpha), b - a + 1),
                                  Sub(frames[a][i].prev, v))

\* C3 witness: three frames with a band's input held at a value above 0 under the
\* default alpha 0.65, the band rising strictly in each of them.
SmoothingConvergenceWitness ==
    /\ Len(frames) >= 3
    /\ bandSmoothingAlpha = <<13, 20>>
    /\ \E i \in BandIndices :
         /\ HeldConstant(i, 1, 3)
         /\ Lt(Zero, frames[1][i].normalized)
         /\ \A j \in 1..3 : Lt(frames[j][i].prev, frames[j][i].smoothed)

\* C4: frequencyToBinIndex(binIndexToFrequency(b)) = b for every valid bin index b.
BinRoundTrip ==
    ( /\ binCall.op = "frequencyToBinIndex"
      /\ binCall.origin \in 0..(binCall.fft \div 2 - 1) )
    => binCall.result = Num(binCall.origin)

BandBinsInRange ==
    /\ \A i \in BandIndices :
         /\ bandsInternal[i].startBin \in 0..(Len(fftMagnitudes) - 1)
         /\ bandsInternal[i].endBin \in 0..(Len(fftMagnitudes) - 1)
    /\ \A j \in FrameIndices : \A i \in BandIndices : ~IsNaN(frames[j][i].avgDb)

\* C6 witness: a frame taken with a custom band whose minHz is above Nyquist and
\* whose maxHz is negative.
BandBinsInRangeWitness ==
    /\ Len(frames) >= 1
    /\ bandsInternal[1].config.minHz = Num(30000)
    /\ bandsInternal[1].config.maxHz = Num(-100)
    /\ bandsInternal[1].startBin = Len(fftMagnitudes) - 1
    /\ bandsInternal[1].endBin = 0

MoodIn01(mood) == In01(mood.energy) /\ In01(mood.brightness) /\ In01(mood.dynamics)

MoodFinite(mood) == ~IsNaN(mood.energy) /\ ~IsNaN(mood.brightness) /\ ~IsNaN(mood.dynamics)

\* the mood a call starts from: prev ?? DEFAULT_MOOD, the default written out
StartOf(call) ==
    IF call.prev = Undefined
    THEN [energy |-> <<1, 5>>, brightness |-> <<2, 5>>, dynamics |-> <<3, 10>>]
    ELSE call.prev[1]

\* C7: starting from a mood in [0, 1]^3 or from none, after any sequence of
\* updateMoodFromBands calls with any finite band energies, energy, brightness and
\* dynamics of the returned mood lie in [0, 1].
MoodComponentsIn01 ==
    /\ moodRef # Undefined => MoodIn01(moodRef[1])
    /\ \A k \in 1..Len(moodCalls) : MoodIn01(moodCalls[k].result)

\* C8: a call with no band energies or no band metadata returns the previous mood
\* unchanged, or the default mood {0.2, 0.4, 0.3} when there is none; no call yields a
\* non-finite component (no division by zero).
EmptyInputsKeepMood ==
    \A k \in 1..Len(moodCalls) :
      /\ MoodFinite(moodCalls[k].result)
      /\ (Len(moodCalls[k].bands) = 0 \/ Len(bandMetaRef) = 0) =>
           moodCalls[k].result = StartOf(moodCalls[k])

\* C8 witness: with no band metadata, a first call with no energies and no previous
\* mood returned the default, and a second call with six energies returned it again.
EmptyInputsKeepMoodWitness ==
    /\ bandMetaRef = <<>>
    /\ Len(moodCalls) >= 2
    /\ moodCalls[1].prev = Undefined
    /\ moodCalls[1].bands = <<>>
    /\ moodCalls[2].prev # Undefined
    /\ Len(moodCalls[2].bands) = 6
    /\ moodCalls[2].result = moodCalls[1].result

TrebleOnly == <<Zero, Zero, Zero, Zero, Zero, One>>

SubOnly == <<One, Zero, Zero, Zero, Zero, Zero>>

DefaultCentres ==
    << [centerHz |-> Num(40)], [centerHz |-> Num(155)], [centerHz |-> Num(375)],
       [centerHz |-> Num(1250)], [centerHz |-> Num(4000)], [centerHz |-> Num(11000)] >>

\* the calls a..b all took the band energies input
Repeated(input, a, b) == \A j \in a..b : moodCalls[j].bands = input

\* C9: the default six bands have the centres 40, 155, 375, 1250, 4000, 11000 Hz.  On
\* them, n calls in a row with the energies [0,0,0,0,0,1] never lower brightness, keep
\* it at most 1 and multiply its distance to 1 by 0.85^n; n calls with [1,0,0,0,0,0]
\* never raise it, keep it at least 0 and multiply it by 0.85^n.  Stated for the runs
\* that end with the latest call.
BrightnessResponse ==
    /\ Len(bandMetaRef) = 6 => bandMetaRef = DefaultCentres
    /\ (bandMetaRef = DefaultCentres /\ Len(moodCalls) > 0) =>
         LET b    == Len(moodCalls)
             last == moodCalls[b]
         IN  /\ last.bands = TrebleOnly =>
                  /\ Le(StartOf(last).brightness, last.result.brightness)
                  /\ Le(last.result.brightness, One)
                  /\ \A a \in 1..b :
                       Repeated(TrebleOnly, a, b) =>
                         Sub(One, last.result.brightness)
                           = Mul(Pow(<<17, 20>>, b - a + 1),
                                 Sub(One, StartOf(moodCalls[a]).brightness))
             /\ last.bands = SubOnly =>
                  /\ Le(last.result.brightness, StartOf(last).brightness)
                  /\ Le(Zero, last.result.brightness)
                  /\ \A a \in 1..b :
                       Repeated(SubOnly, a, b) =>
                         last.result.brightness
                           = Mul(Pow(<<17, 20>>, b - a + 1),
                                 StartOf(moodCalls[a]).brightness)

\* C9 witness: on the default bands, from no previous mood, two calls with treble only
\* raised brightness strictly each time and a third call with sub only lowered it.
BrightnessResponseWitness ==
    /\ bandMetaRef = DefaultCentres
    /\ Len(moodCalls) >= 3
    /\ moodCalls[1].prev = Undefined
    /\ Repeated(TrebleOnly, 1, 2)
    /\ Lt(<<2, 5>>, moodCalls[1].result.brightness)
    /\ Lt(moodCalls[1].result.brightness, moodCalls[2].result.brightness)
    /\ moodCalls[3].bands = SubOnly
    /\ Lt(moodCalls[3].result.brightness, moodCalls[2].result.brightness)

EmptyBandFloor ==
    frames # <<>> =>
        LET f == frames[Len(frames)]
        IN  \A i \in BandIndices :
              /\ ~IsNaN(f[i].avgDb)
              /\ ~IsNaN(f[i].smoothed)
              /\ f[i].binCount <= 0 =>
                   /\ f[i].avgDb = Num(minDecibels)
                   /\ f[i].normalized = Zero
                   /\ f[i].smoothed = Mul(f[i].prev, Sub(One, bandSmoothingAlpha))
                   /\ Le(f[i].smoothed, f[i].prev)
              /\ f[i].binCount > 0 =>
                   /\ f[i].avgDb =
                        Div(Num(SumRange(fftMagnitudes, bandsInternal[i].startBin,
                                         bandsInternal[i].endBin)),
                            Num(f[i].binCount))
                   /\ f[i].smoothed =
                        Add(Mul(f[i].prev, Sub(One, bandSmoothingAlpha)),
                            Mul(normalizeDecibels(f[i].avgDb), bandSmoothingAlpha))

\* C18 witness: two frames; a band with an empty bin range (a negative bin count in
\* one run, as the limits of a custom band may come in any order) next to a band
\* with a non-empty range whose energy has risen above 0.
EmptyBandFloorWitness ==
    /\ Len(frames) >= 2
    /\ \E i \in BandIndices : \E k \in BandIndices :
         /\ frames[Len(frames)][i].binCount < 0
         /\ frames[Len(frames)][i].smoothed = Zero
         /\ frames[Len(frames)][k].binCount > 0
         /\ Lt(Zero, frames[Len(frames)][k].smoothed)

TickIndices == 1..Len(ticks)

\* C13: no run of the loop callback (a drawFrame tick) happens after a call of
\* stop() that no call of start() has followed.
StopHaltsLoop == \A t \in TickIndices : ~ticks[t].afterStop

\* C14: a tick that finds the paused flag set on a canvas with a plot area draws no
\* column, does not scroll, calls neither getFrame() nor onFrame, leaves every band's
\* smoothed value as it was, and redraws the frequency axis once; a tick that finds
\* the flag clear draws a column again (after one getFrame() and one scroll).
PausedTickAxisOnly ==
    /\ \A t \in TickIndices :
         /\ (ticks[t].paused /\ ~ticks[t].degenerate) =>
              /\ ticks[t].columns = 0
              /\ ticks[t].scrolls = 0
              /\ ticks[t].getFrame = 0
              /\ ticks[t].onFrame = 0
              /\ ticks[t].axes = 1
              /\ ticks[t].bandsAfter = ticks[t].bandsBefore
         /\ (~ticks[t].paused /\ ~ticks[t].degenerate) =>
              /\ ticks[t].columns = 1
              /\ ticks[t].scrolls = 1
              /\ ticks[t].getFrame = 1
              /\ ticks[t].axes = 1
    /\ Len(frames) = Cardinality({ t \in TickIndices : ticks[t].getFrame = 1 })

\* C14 witness: a column drawn, then a tick under the paused flag that leaves band
\* energies above 0 alone, then the flag cleared and a column drawn again.
PausedTickAxisOnlyWitness ==
    /\ Len(ticks) >= 3
    /\ ~ticks[1].paused /\ ticks[1].columns = 1
    /\ ticks[2].paused /\ ticks[2].axes = 1 /\ ticks[2].columns = 0
    /\ \E i \in BandIndices : Lt(Zero, ticks[2].bandsBefore[i].smoothedValue)
    /\ ~ticks[3].paused /\ ticks[3].columns = 1
    /\ drawn.columns = 2
    /\ drawn.axes = 3

\* C19: when the canvas has no 2d context the constructor throws and there is no
\* renderer: no animation frame is requested or run, nothing is drawn on the canvas,
\* and the analyzer is as it was constructed.
NoContextNoRenderer ==
    /\ ~canvas.has2d => rendererStatus # "constructed"
    /\ rendererStatus = "threw" =>
         /\ ~canvas.has2d
         /\ animationFrameId = <<>>
         /\ rafPending = {}
         /\ rafNext = 1
         /\ drawn = NothingDrawn
         /\ ticks = <<>>
         /\ frames = <<>>
         /\ \A i \in BandIndices : bandsInternal[i].smoothedValue = Zero
         /\ \A k \in 1..Len(fftMagnitudes) : fftMagnitudes[k] = 0

\* C19 witness: the constructor has thrown.
NoContextNoRendererWitness ==
    /\ rendererStatus = "threw"
    /\ ~canvas.has2d
    /\ onFrame # <<>>

Pool == particlesRef.items

PoolIndices == 1..Len(Pool)

\* the pool is as the latest pass of the loop left it
JustTicked ==
    /\ lastTick.mode # "none"
    /\ lastTick.before.allocations = particlesRef.allocations

\* C11: after createParticles() and after the update pass of every tick, in every
\* composition, every particle has 0 < life < 1.6; and every particle whose life
\* reached 0 or less during the latest tick was respawned in that tick.
ParticleLifeInRange ==
    /\ \A i \in PoolIndices : Lt(Zero, Pool[i].life) /\ Lt(Pool[i].life, <<8, 5>>)
    /\ JustTicked => lastTick.expired \subseteq lastTick.respawned

\* C11 witness: a tick of the hybrid composition in which a particle's life ran out
\* (it was above 0 before) and which left it with a fresh life.
ParticleLifeInRangeWitness ==
    /\ JustTicked
    /\ lastTick.mode = "hybrid"
    /\ \E i \in lastTick.expired :
         /\ Lt(Zero, lastTick.before.items[i].life)
         /\ Le(<<4, 5>>, Pool[i].life)

\* C12: after creation and after every tick, respawn and resize, in every
\* composition, every particle's band index is an integer from 0 up to, and not
\* including, the length of the band-energy list the ticks are given.
ParticleBandInRange ==
    \A i \in PoolIndices : Pool[i].band \in 0..(Len(music) - 1)

\* C12 witness: a tick of the particles composition, whose respawn is called without
\* a band count, has given a particle the highest band index.
ParticleBandInRangeWitness ==
    /\ JustTicked
    /\ lastTick.mode = "particles"
    /\ \E i \in lastTick.respawned :
         /\ Pool[i].band = Len(music) - 1
         /\ lastTick.before.items[i].band # Pool[i].band

\* C20: once created the pool has PoolSize particles (220 on the page) after every
\* tick and every fullscreen change; a tick leaves the array and its length as they
\* were, overwrites a particle it respawns at its own index, and otherwise keeps the
\* particle's velocity, hue and band; a particle with life <= 0 or beyond the 80
\* pixel margin does not survive a tick of hybrid, star or orbit.
PoolFixedSize ==
    /\ particlesRef.allocations > 0 => Len(Pool) = PoolSize
    /\ JustTicked =>
         /\ Len(lastTick.before.items) = Len(Pool)
         /\ \A i \in PoolIndices :
              LET old == lastTick.before.items[i]
              IN  /\ i \notin lastTick.respawned =>
                       /\ Pool[i].vx = old.vx
                       /\ Pool[i].vy = old.vy
                       /\ Pool[i].hue = old.hue
                       /\ Pool[i].band = old.band
                  /\ (i \notin lastTick.respawned /\ lastTick.mode \in {"hybrid", "star", "orbit"}) =>
                       /\ Lt(Zero, Pool[i].life)
                       /\ Le(Num(-80), Pool[i].x) /\ Le(Pool[i].x, Num(vjCanvas.width + 80))
                       /\ Le(Num(-80), Pool[i].y) /\ Le(Pool[i].y, Num(vjCanvas.height + 80))
                  /\ (i \in lastTick.respawned /\ lastTick.mode \in {"hybrid", "star"}) =>
                       /\ Pool[i].x = Frac(vjCanvas.width, 2)
                       /\ Pool[i].y = Frac(vjCanvas.height, 2)

\* C20 witness: a second pool was created by a fullscreen change and a tick of the
\* star composition respawned one of its particles, not all, in place.
PoolFixedSizeWitness ==
    /\ particlesRef.allocations = 2
    /\ vjCanvas = ScreenCanvas
    /\ JustTicked
    /\ lastTick.mode \in {"hybrid", "star"}
    /\ lastTick.respawned # {}
    /\ lastTick.respawned # PoolIndices
    /\ Len(Pool) = PoolSize


\* the band energies frame k of the analyzer delivered
BandsOfFrame(k) == [i \in 1..Len(frames[k]) |-> frames[k][i].smoothed]

\* C15: in every pass of the VJ page's loop the steps run in the order getFrame,
\* mood update, palette, particle update and drawing: the mood update of pass k got
\* the band energies of frame k and the mood pass k-1 left, the palette of pass k
\* was computed from the mood of pass k, renderFrame got the band energies and the
\* palette of the same pass (on the page with named palettes: the named palette,
\* with no mood step), and the next animation frame is requested once per pass,
\* after them, so that never more than one pass is pending.
LoopStepOrder ==
    /\ Cardinality(rafPending) <= 1
    /\ animationRef = <<>> => rafPending = {} /\ Len(frames) = 0
    /\ animationRef # <<>> => rafPending \subseteq {animationRef[1]}
                              /\ animationRef[1] = Len(frames) + 1
                              /\ rafNext = Len(frames) + 2
    /\ rendered.tick = Len(frames)
    /\ vjTickCount = Len(frames)
    /\ Len(frames) > 0 =>
         /\ rendered.bands = BandsOfFrame(Len(frames))
         /\ rendered.bands = [i \in 1..Len(bandsInternal) |-> bandsInternal[i].smoothedValue]
         /\ music = rendered.bands
         /\ lastTick.mode = visualModeRef
    /\ IF paletteNameRef = <<>>
       THEN /\ Len(moodCalls) = Len(frames)
            /\ Len(paletteCalls) = Len(frames)
            /\ \A k \in 1..Len(frames) :
                 /\ moodCalls[k].bands = BandsOfFrame(k)
                 /\ moodCalls[k].prev = IF k = 1 THEN <<>> ELSE <<moodCalls[k - 1].result>>
                 /\ paletteCalls[k].mood = moodCalls[k].result
                 /\ paletteCalls[k].after = k
            /\ Len(frames) > 0 =>
                 /\ moodRef = <<moodCalls[Len(frames)].result>>
                 /\ rendered.palette = paletteCalls[Len(frames)].palette
       ELSE /\ moodCalls = <<>>
            /\ paletteCalls = <<>>
            /\ Len(frames) > 0 => rendered.palette = getPalette(paletteNameRef[1])

\* two passes of the mood-driven loop over different band energies, with the
\* particles moved and the third pass requested
LoopStepOrderWitness ==
    /\ paletteNameRef = <<>>
    /\ Len(frames) = 2
    /\ BandsOfFrame(1) # BandsOfFrame(2)
    /\ moodCalls[2].result # moodCalls[1].result
    /\ rendered.tick = 2
    /\ lastTick.mode = "hybrid"
    /\ particlesRef.items # lastTick.before.items
    /\ rafPending = {3}


\* C16: when pauseFile() has paused a playing file in file mode, the stored pause
\* offset is the time the file has been playing since it was loaded or rewound,
\* clamped to [0, duration], and the mode is still 'file'.
PauseOffsetIsPlayedTime ==
    (/\ lastOp.op = "pauseFile"
     /\ lastOp.before.currentMode = "file"
     /\ lastOp.before.fileSource # <<>>
     /\ fileBuffer # <<>>)
    => /\ filePauseOffset = MinInt(MaxInt(played, 0), fileBuffer[1])
       /\ currentMode = "file"
       /\ fileBuffer = lastOp.before.fileBuffer

\* C17: after stop() no file source is playing, no microphone source or stream is
\* held, the pause offset and the start time are 0, the mode is 'idle' and the
\* decoded buffer is the one there was before; a stop() in that state changes no
\* field.
StopRewinds ==
    lastOp.op = "stop"
    => /\ fileSource = <<>>
       /\ micSource = <<>>
       /\ micStream = <<>>
       /\ filePauseOffset = 0
       /\ fileStartTime = 0
       /\ currentMode = "idle"
       /\ fileBuffer = lastOp.before.fileBuffer
       /\ (/\ lastOp.before.fileSource = <<>>
           /\ lastOp.before.micSource = <<>>
           /\ lastOp.before.micStream = <<>>
           /\ lastOp.before.filePauseOffset = 0
           /\ lastOp.before.fileStartTime = 0
           /\ lastOp.before.currentMode = "idle") => Snapshot = lastOp.before

\* stop() on a loaded file that was resumed from a pause and is playing
StopRewindsWitness ==
    /\ lastOp.op = "stop"
    /\ lastOp.before.currentMode = "file"
    /\ lastOp.before.fileSource # <<>>
    /\ lastOp.before.filePauseOffset > 0
    /\ lastOp.before.fileStartTime # 0
    /\ fileBuffer # <<>>
    /\ pending = {}


\* C28: at most one audio source is active: mode 'file' holds no microphone stream
\* or source, mode 'mic' has no file source playing, mode 'idle' holds neither.
OneActiveSource ==
    /\ currentMode = "file" => micStream = <<>> /\ micSource = <<>>
    /\ currentMode = "mic" => fileSource = <<>>
    /\ currentMode = "idle" => fileSource = <<>> /\ micStream = <<>> /\ micSource = <<>>

\* C29: source.onended of a source that is not the one playing changes no field of
\* the transport; that of the source playing clears fileSource, resets the pause
\* offset to 0 and sets the mode to 'idle', and changes nothing else.
LateEndedIgnored ==
    lastOp.op = "ended"
    => IF lastOp.before.fileSource # <<>> /\ lastOp.before.fileSource[1].id = lastOp.source
       THEN Snapshot = [lastOp.before EXCEPT !.fileSource = <<>>,
                                             !.filePauseOffset = 0,
                                             !.currentMode = "idle"]
       ELSE Snapshot = lastOp.before

\* the 'ended' event of a paused source arrives while its successor is playing
LateEndedIgnoredWitness ==
    /\ lastOp.op = "ended"
    /\ fileSource # <<>>
    /\ fileSource[1].id > lastOp.source
    /\ filePauseOffset > 0
    /\ currentMode = "file"


\* C27: whenever the page's isFilePlaying flag is true the analyzer is playing
\* (AudioAnalyzer.isFilePlaying(), i.e. fileSource is not null).
FlagMeansPlaying == isFilePlaying => fileSource # <<>>


\* C25: at most one animation-frame callback of the renderer is pending, and
\* animationFrameId is non-null exactly when one is pending.
OnePendingCallback ==
    /\ Cardinality(rafPending) <= 1
    /\ animationFrameId # <<>> <=> rafPending # {}


\* C26: each of the six hues of every palette computed from a mood in [0, 1]^3
\* lies in [0, 360).
HuesInRange ==
    \A k \in 1..Len(paletteCalls) :
        (/\ Le(Zero, paletteCalls[k].mood.energy) /\ Le(paletteCalls[k].mood.energy, One)
         /\ Le(Zero, paletteCalls[k].mood.brightness) /\ Le(paletteCalls[k].mood.brightness, One)
         /\ Le(Zero, paletteCalls[k].mood.dynamics) /\ Le(paletteCalls[k].mood.dynamics, One))
        => \A c \in {"base", "accent", "background", "ring", "particle", "highlight"} :
              /\ Le(Zero, paletteCalls[k].palette[c].hue)
              /\ Lt(paletteCalls[k].palette[c].hue, Num(360))


\* the band energies of the bands whose centre frequency is in [lo, hi), summed
\* (a band without metadata has the centre 0)
EnergyBetween(bands, meta, lo, hi) ==
    SumRat([i \in 1..Len(bands) |->
              IF Le(Num(lo), CenterHzAt(meta, i)) /\ Lt(CenterHzAt(meta, i), Num(hi))
              THEN bands[i] ELSE Zero])

\* the share of a bucket sum in the total, taken only when the total exceeds 0.001
FractionOf(part, total) == IF Lt(<<1, 1000>>, total) THEN Div(part, total) ELSE part

\* the sample variance as (sum of squares - n * mean^2) / max(1, n - 1)
SampleVariance(bands) ==
    LET n    == Len(bands)
        mean == Div(SumRat(bands), Num(n))
    IN  Div(Sub(SumRat([i \in 1..n |-> Mul(bands[i], bands[i])]),
                Mul(Num(n), Mul(mean, mean))),
            Num(IF n - 1 > 1 THEN n - 1 ELSE 1))

\* prev * 0.85 + raw * 0.15
Blend(prev, raw) == Add(Mul(prev, <<17, 20>>), Mul(raw, <<3, 20>>))

GetFrameIdempotent ==
    [][(/\ Len(frames) > 0
        /\ Len(frames') = Len(frames) + 1
        /\ fftMagnitudes' = fftMagnitudes)
       => /\ BandsOfFrame(Len(frames))' = BandsOfFrame(Len(frames))
          /\ bandsInternal' = bandsInternal]_vars


\* C22: every bin index of a new column is an integer in 0 .. length-1; for a
\* height of at least 2 row 0 takes the last bin, the last row takes bin 0 and the
\* index never increases from a row to the next; for the height 1 the index is 0.
ColumnBinsInRange ==
    binCall.op = "column"
    => /\ \A row \in 1..binCall.height : binCall.bins[row] \in 0..(binCall.length - 1)
       /\ binCall.height >= 2 =>
            /\ binCall.bins[1] = binCall.length - 1
            /\ binCall.bins[binCall.height] = 0
            /\ \A row \in 2..binCall.height : binCall.bins[row] <= binCall.bins[row - 1]
       /\ binCall.height = 1 => binCall.bins[1] = 0

\* a column with more rows than bins and one with more bins than rows have been
\* drawn: here the one of 5 rows over 8 bins
ColumnBinsInRangeWitness ==
    /\ binCall.op = "column"
    /\ binCall.height = 5
    /\ binCall.length = 8
    /\ binCall.bins = <<7, 5, 4, 2, 0>>

\* the colour stops of the gradient: black, the dark blue and the near-white the
\* colour map gives at 0.25 and at 1, cyan and yellow
ColourStop(k) ==
    CASE k = 0 -> <<0, 0, 0>>
      [] k = 1 -> colourMap(<<1, 4>>)
      [] k = 2 -> <<0, 255, 255>>
      [] k = 3 -> <<255, 255, 0>>
      [] OTHER -> colourMap(One)

\* C23: the colour of a value in [k/4, (k+1)/4] is, channel by channel and up to
\* the rounding to an integer, the linear interpolation between the stops k and k+1,
\* so that the segments meet at the stops; every channel is an integer in 0..255.
ColourGradient ==
    binCall.op = "colourMap"
    => LET v == MathMin(MathMax(binCall.value, Zero), One)
       IN  /\ \A c \in 1..3 : binCall.colour[c] \in 0..255
           /\ \A k \in 0..3 :
                (Le(<<k, 4>>, v) /\ Le(v, <<k + 1, 4>>)) =>
                   \A c \in 1..3 :
                      Le(RatAbs(Sub(Num(binCall.colour[c]),
                                    Add(Num(ColourStop(k)[c]),
                                        Mul(Num(ColourStop(k + 1)[c] - ColourStop(k)[c]),
                                            Mul(Sub(v, <<k, 4>>), Num(4)))))),
                         One)


\* the distance of a particle of the pool from the centre of the canvas
DistanceFromCentre(i) ==
    Hypot(Sub(Pool[i].x, Frac(vjCanvas.width, 2)), Sub(Pool[i].y, Frac(vjCanvas.height, 2)))

\* the exclusion radius of the latest tick
ExclusionRadius ==
    IF lastTick.mode = "hybrid"
    THEN hybridExclusionRadius(vjCanvas.width, vjCanvas.height, music)
    ELSE orbitExclusionRadius(vjCanvas.width, vjCanvas.height, music)

\* C21: in the hybrid and orbit compositions no particle whose distance from the
\* centre is less than the exclusion radius of the tick was drawn in the tick, and
\* every other particle was drawn.
NoDrawInExclusionZone ==
    (JustTicked /\ lastTick.mode \in {"hybrid", "orbit"})
    => \A i \in PoolIndices :
          i \in lastTick.drawn <=> ~Lt(DistanceFromCentre(i), ExclusionRadius)

\* a hybrid tick that respawned a particle at the centre and did not draw it, and
\* drew another particle of the pool
NoDrawInExclusionZoneWitness ==
    /\ JustTicked
    /\ lastTick.mode = "hybrid"
    /\ \E i \in lastTick.respawned :
         /\ DistanceFromCentre(i) = Zero
         /\ i \notin lastTick.drawn
    /\ lastTick.drawn # {}

====
